---- MODULE Spec2Model ----
(***************************************************************************)
(* Memory engine of the QA chatbot (src/model.py): the token-budgeted      *)
(* window selectors, the FAISS-backed semantic Q&A store and the prompt    *)
(* assembler.                                                              *)
(*                                                                         *)
(* Texts are sequences of token pieces; count_tokens is the length of the  *)
(* encoding.  Embeddings are small integer vectors; a normalised vector is *)
(* kept as [v, s], standing for v / sqrt(s), so that inner products are    *)
(* compared exactly.                                                       *)
(***************************************************************************)
EXTENDS Integers, Sequences, FiniteSets, TLC

VARIABLES
    \* --- FaissQAVectorStore fields (model.py:43-47); None is <<>>, a value x is <<x>>
    _questions, _answers, _index, _dim,
    \* --- the last call on the store and how it ended
    op,
    \* --- harness of the two window selectors (pure functions)
    fn, history, qa_pairs, max_tokens, selected, pc,
    \* --- prompt assembler: rows of the messages table, the call and its outcome
    db_messages, call,
    \* --- database (database.py): rows of the conversations table, the clock
    \* behind CURRENT_TIMESTAMP, the last database call and how it ended
    db_conversations, now, dbop,
    \* --- ask_question: the call in progress and its position
    ask,
    \* --- harness of should_store_in_vector_memory (pure function)
    retain,
    \* --- api.py: the request being served and its response
    http,
    \* --- calls running at the same time on the threads of the server: the
    \* statement each has reached and its local variables
    threads

storeVars  == <<_questions, _answers, _index, _dim, op>>
windowVars == <<fn, history, qa_pairs, max_tokens, selected, pc>>
asmVars    == <<db_messages, call>>
dbVars     == <<db_conversations, now, dbop>>
flowVars   == <<ask, retain>>
apiVars    == <<http, threads>>
vars       == <<storeVars, windowVars, asmVars, dbVars, flowVars, apiVars>>

----------------------------------------------------------------------------
(* Bounds of the model *)

MaxHistory == 3      \* turns in a history handed to the window selector
MaxPairs   == 3      \* retrieved pairs handed to the pair selector
MaxBudget  == 24     \* largest budget drawn for the selectors
MaxEntries == 2      \* entries the semantic store may hold
MaxRows    == 2      \* rows of the messages table
MaxStored  == 2      \* store entries present when the assembler is called
PassageTokens == 700 \* token length of the long passage used as a text
MaxExtraWords  == 4  \* words that follow the first word of a question put to the heuristic
MaxAnswerWords == 7  \* words of an answer put to the heuristic
MaxMessages == 3     \* add_message calls made on the database
MaxCalls == 1        \* ask_question calls made one after the other
ParagraphTokens == 93  \* token length of the paragraph used as a text

----------------------------------------------------------------------------
(* Sequence helpers *)

Range(s) == {s[i] : i \in 1..Len(s)}

Reverse(s) == [i \in 1..Len(s) |-> s[Len(s) + 1 - i]]

Min(a, b) == IF a <= b THEN a ELSE b

SeqsUpTo(S, n) == UNION {[1..k -> S] : k \in 0..n}

\* a text of n words
Words(n) == [i \in 1..n |-> "w"]

\* n words "x", each preceded by a blank
RECURSIVE MoreWords(_)
MoreWords(n) == IF n = 0 THEN <<>> ELSE <<" ", "x">> \o MoreWords(n - 1)

\* n words "x" separated by blanks
WordsText(n) == IF n = 0 THEN <<>> ELSE <<"x">> \o MoreWords(n - 1)

None == <<>>
Some(x) == <<x>>

----------------------------------------------------------------------------
(* Token utilities, model.py:90-105 *)

\* tokens the tokenizer produces for one piece of text: a word, a separator or a
\* line break is one token, the piece "PASSAGE" stands for a passage of
\* PassageTokens tokens, the piece "PARAGRAPH" for one of ParagraphTokens tokens
PieceTokens(piece) ==
    IF piece = "PASSAGE" THEN PassageTokens
    ELSE IF piece = "PARAGRAPH" THEN ParagraphTokens
    ELSE 1

\* len(encoding.encode(text))
RECURSIVE EncodedLen(_, _)
EncodedLen(text, i) ==
    IF i > Len(text) THEN 0 ELSE PieceTokens(text[i]) + EncodedLen(text, i + 1)

count_tokens(text) == EncodedLen(text, 1)

\* f"{role}: {content}\n"
RenderMessage(msg) == <<msg.role, ": ">> \o msg.content \o <<"\n">>

RECURSIVE SumMessageTokens(_, _)
SumMessageTokens(messages, i) ==
    IF i > Len(messages) THEN 0
    ELSE count_tokens(RenderMessage(messages[i])) + SumMessageTokens(messages, i + 1)

count_message_list_tokens(messages) == SumMessageTokens(messages, 1)

\* f"Q: {q}\nA: {a}\n"
RenderPair(pair) == <<"Q", ": ">> \o pair[1] \o <<"\n", "A", ": ">> \o pair[2] \o <<"\n">>

----------------------------------------------------------------------------
(* Window selectors, model.py:108-151 *)

\* {"role": msg["role"], "content": msg["content"]}
CleanMsg(msg) == [role |-> msg.role, content |-> msg.content]

\* the loop over reversed(history): i is the position read next, newest first
RECURSIVE ScanRecent(_, _, _, _, _)
ScanRecent(hist, budget, i, total_tokens, sel) ==
    IF i = 0 THEN sel
    ELSE LET msg_tokens == count_message_list_tokens(<<hist[i]>>)
         IN  IF total_tokens + msg_tokens > budget
             THEN sel                                            \* break
             ELSE ScanRecent(hist, budget, i - 1, total_tokens + msg_tokens,
                             Append(sel, CleanMsg(hist[i])))

\* mutant: the accumulated selection is returned without the final reversal
RecentNoReverse(hist, budget) == ScanRecent(hist, budget, Len(hist), 0, <<>>)

\* mutant: the overflowing turn is skipped (continue) and older turns are still tried
RECURSIVE ScanRecentContinue(_, _, _, _, _)
ScanRecentContinue(hist, budget, i, total_tokens, sel) ==
    IF i = 0 THEN sel
    ELSE LET msg_tokens == count_message_list_tokens(<<hist[i]>>)
         IN  IF total_tokens + msg_tokens > budget
             THEN ScanRecentContinue(hist, budget, i - 1, total_tokens, sel)
             ELSE ScanRecentContinue(hist, budget, i - 1, total_tokens + msg_tokens,
                                     Append(sel, CleanMsg(hist[i])))

RecentContinue(hist, budget) == Reverse(ScanRecentContinue(hist, budget, Len(hist), 0, <<>>))

\* mutant: the budget test is >= instead of >
RECURSIVE ScanRecentStrict(_, _, _, _, _)
ScanRecentStrict(hist, budget, i, total_tokens, sel) ==
    IF i = 0 THEN sel
    ELSE LET msg_tokens == count_message_list_tokens(<<hist[i]>>)
         IN  IF total_tokens + msg_tokens >= budget
             THEN sel
             ELSE ScanRecentStrict(hist, budget, i - 1, total_tokens + msg_tokens,
                                   Append(sel, CleanMsg(hist[i])))

RecentStrict(hist, budget) == Reverse(ScanRecentStrict(hist, budget, Len(hist), 0, <<>>))

\* mutant: the selected rows themselves are returned, not clean copies of them
RecentNoCopy(hist, budget) ==
    LET n == Len(ScanRecent(hist, budget, Len(hist), 0, <<>>))
    IN  SubSeq(hist, Len(hist) - n + 1, Len(hist))

select_recent_messages_within_budget(hist, budget) ==
    Reverse(ScanRecent(hist, budget, Len(hist), 0, <<>>))

\* the loop over qa_pairs: i is the position read next, best ranked first
RECURSIVE ScanPairs(_, _, _, _, _)
ScanPairs(pairs, budget, i, total_tokens, sel) ==
    IF i > Len(pairs) THEN sel
    ELSE LET pair_tokens == count_tokens(RenderPair(pairs[i]))
         IN  IF total_tokens + pair_tokens > budget
             THEN sel                                            \* break
             ELSE ScanPairs(pairs, budget, i + 1, total_tokens + pair_tokens,
                            Append(sel, pairs[i]))

\* mutant: the overflowing pair is skipped (continue) and later pairs are still tried
RECURSIVE ScanPairsContinue(_, _, _, _, _)
ScanPairsContinue(pairs, budget, i, total_tokens, sel) ==
    IF i > Len(pairs) THEN sel
    ELSE LET pair_tokens == count_tokens(RenderPair(pairs[i]))
         IN  IF total_tokens + pair_tokens > budget
             THEN ScanPairsContinue(pairs, budget, i + 1, total_tokens, sel)
             ELSE ScanPairsContinue(pairs, budget, i + 1, total_tokens + pair_tokens,
                                    Append(sel, pairs[i]))

PairsContinue(pairs, budget) == ScanPairsContinue(pairs, budget, 1, 0, <<>>)

\* mutant: the budget is charged for the question only, not for the rendered pair
RECURSIVE ScanPairsQuestionOnly(_, _, _, _, _)
ScanPairsQuestionOnly(pairs, budget, i, total_tokens, sel) ==
    IF i > Len(pairs) THEN sel
    ELSE LET pair_tokens == count_tokens(pairs[i][1])
         IN  IF total_tokens + pair_tokens > budget
             THEN sel
             ELSE ScanPairsQuestionOnly(pairs, budget, i + 1, total_tokens + pair_tokens,
                                        Append(sel, pairs[i]))

PairsQuestionOnly(pairs, budget) == ScanPairsQuestionOnly(pairs, budget, 1, 0, <<>>)

select_vector_qa_within_budget(pairs, budget) == ScanPairs(pairs, budget, 1, 0, <<>>)

----------------------------------------------------------------------------
(* FaissQAVectorStore, model.py:41-82.  The index is faiss.IndexFlatIP: its
   dimension d and its vectors xb in insertion order; positions are counted
   from 1 here and from 0 in the source. *)

TOP_K == 5

RECURSIVE Dot(_, _, _)
Dot(a, b, i) == IF i > Len(a) THEN 0 ELSE a[i] * b[i] + Dot(a, b, i + 1)

\* faiss.normalize_L2: x / |x|, a zero vector is left as it is
normalize_L2(x) ==
    LET n2 == Dot(x, x, 1)
    IN  [v |-> x, s |-> IF n2 = 0 THEN 1 ELSE n2]

\* inner product of x with q >= inner product of y with q, all three normalised:
\* (x.v . q.v) / sqrt(x.s)  >=  (y.v . q.v) / sqrt(y.s)
ScoreGE(x, y, q) ==
    LET nx == Dot(x.v, q.v, 1)
        ny == Dot(y.v, q.v, 1)
    IN  CASE nx >= 0 /\ ny >= 0 -> nx * nx * y.s >= ny * ny * x.s
          [] nx >= 0 /\ ny < 0  -> TRUE
          [] nx < 0  /\ ny >= 0 -> FALSE
          [] OTHER              -> nx * nx * y.s <= ny * ny * x.s

\* IndexFlatIP.search(q, k): the k positions of largest inner product, best first;
\* the order among equal inner products is not specified
IndexSearch(xb, q, k) ==
    {I \in [1..k -> 1..Len(xb)] :
        /\ \A a, b \in 1..k : a < b => I[a] # I[b] /\ ScoreGE(xb[I[a]], xb[I[b]], q)
        /\ \A j \in 1..Len(xb) :
              j \notin Range(I) => \A a \in 1..k : ScoreGE(xb[I[a]], xb[j], q)}

\* __init__
EmptyStore == [questions |-> <<>>, answers |-> <<>>, index |-> None, dim |-> None]

ntotal(S) == Len(S.index[1].xb)

\* mutant: the texts are appended before the vector is handed to the index
AddTextsFirst(S, question, answer, embedding) ==
    LET lazy   == S.index = None
        index1 == IF lazy THEN [d |-> Len(embedding), xb |-> <<>>] ELSE S.index[1]
        S1     == [S EXCEPT !.dim   = IF lazy THEN Some(Len(embedding)) ELSE @,
                            !.index = Some(index1),
                            !.questions = Append(@, question),
                            !.answers   = Append(@, answer)]
    IN  IF Len(embedding) # index1.d
        THEN [raised |-> TRUE, store |-> S1]
        ELSE [raised |-> FALSE,
              store  |-> [S1 EXCEPT !.index =
                            Some([index1 EXCEPT !.xb = Append(@, normalize_L2(embedding))])]]

\* mutant: an embedding of another length is cut or zero-padded to the index's
\* dimension instead of being refused
AddCoerced(S, question, answer, embedding) ==
    LET lazy   == S.index = None
        index1 == IF lazy THEN [d |-> Len(embedding), xb |-> <<>>] ELSE S.index[1]
        emb    == [i \in 1..index1.d |-> IF i <= Len(embedding) THEN embedding[i] ELSE 0]
    IN  [raised |-> FALSE,
         store  |-> [S EXCEPT !.dim   = IF lazy THEN Some(Len(embedding)) ELSE @,
                              !.index = Some([index1 EXCEPT !.xb = Append(@, normalize_L2(emb))]),
                              !.questions = Append(@, question),
                              !.answers   = Append(@, answer)]]

\* add(question, answer, embedding): the store afterwards and whether it raised
add(S, question, answer, embedding) ==
    LET lazy   == S.index = None
        index1 == IF lazy THEN [d |-> Len(embedding), xb |-> <<>>] ELSE S.index[1]
        S1     == [S EXCEPT !.dim   = IF lazy THEN Some(Len(embedding)) ELSE @,
                            !.index = Some(index1)]
    IN  IF Len(embedding) # index1.d          \* index.add: assert d == self.d
        THEN [raised |-> TRUE, store |-> S1]
        ELSE [raised |-> FALSE,
              store  |-> [S1 EXCEPT !.index =
                            Some([index1 EXCEPT !.xb = Append(@, normalize_L2(embedding))]),
                                    !.questions = Append(@, question),
                                    !.answers   = Append(@, answer)]]

is_empty(S) == S.index = None \/ ntotal(S) = 0

SearchResult(raised, asked, indices, results) ==
    [raised |-> raised, asked |-> asked, indices |-> indices, results |-> results]

\* mutant: the index is asked for top_k neighbours whatever it holds; it fills
\* the positions it cannot serve with the last entry
SearchUnclamped(S, query_embedding, top_k) ==
    IF is_empty(S) THEN {SearchResult(FALSE, None, <<>>, <<>>)}
    ELSE LET index == S.index[1]
             n     == Len(index.xb)
             k     == Min(top_k, n)
         IN  IF Len(query_embedding) # index.d \/ top_k <= 0
             THEN {SearchResult(TRUE, Some(top_k), <<>>, <<>>)}
             ELSE {SearchResult(FALSE, Some(top_k),
                                [i \in 1..top_k |-> IF i <= k THEN I[i] ELSE n],
                                [i \in 1..top_k |->
                                    LET j == IF i <= k THEN I[i] ELSE n
                                    IN  <<S.questions[j], S.answers[j]>>]) :
                   I \in IndexSearch(index.xb, normalize_L2(query_embedding), k)}

\* mutant: the neighbours are returned in insertion order, not by similarity
SearchUnranked(S, query_embedding, top_k) ==
    IF is_empty(S) THEN {SearchResult(FALSE, None, <<>>, <<>>)}
    ELSE LET index == S.index[1]
             k     == Min(top_k, Len(index.xb))
         IN  IF Len(query_embedding) # index.d \/ k <= 0
             THEN {SearchResult(TRUE, Some(k), <<>>, <<>>)}
             ELSE {SearchResult(FALSE, Some(k), [i \in 1..k |-> i],
                                [i \in 1..k |-> <<S.questions[i], S.answers[i]>>])}

\* search(query_embedding, top_k): the outcomes it can have; asked is the number
\* of neighbours requested from the index (None when the index is not searched)
search(S, query_embedding, top_k) ==
    IF is_empty(S) THEN {SearchResult(FALSE, None, <<>>, <<>>)}
    ELSE LET q     == normalize_L2(query_embedding)
             index == S.index[1]
             k     == Min(top_k, Len(index.xb))
         IN  \* index.search: assert d == self.d, assert k > 0 (a faiss build
             \* without the second assertion returns no neighbour for k = 0)
             IF Len(query_embedding) # index.d \/ k < 0
             THEN {SearchResult(TRUE, Some(k), <<>>, <<>>)}
             ELSE IF k = 0
             THEN {SearchResult(TRUE, Some(k), <<>>, <<>>),
                   SearchResult(FALSE, Some(k), <<>>, <<>>)}
             ELSE {SearchResult(FALSE, Some(k), I,
                                [i \in 1..k |-> <<S.questions[I[i]], S.answers[I[i]]>>]) :
                   I \in IndexSearch(index.xb, q, k)}

----------------------------------------------------------------------------
(* Retention heuristic, model.py:165-187.  str.strip, str.lower, str.startswith
   and str.split read a text character by character: here each piece of the
   text is one character. *)

\* the characters str.strip() and str.split() take for white space
IsSpace(c) == c \in {" ", "\n", "\t"}

\* str.strip(): leading and trailing white space removed
RECURSIVE Strip(_)
Strip(text) ==
    IF text = <<>> THEN text
    ELSE IF IsSpace(text[1]) THEN Strip(Tail(text))
    ELSE IF IsSpace(text[Len(text)]) THEN Strip(SubSeq(text, 1, Len(text) - 1))
    ELSE text

\* str.lower() of one character (the capitals that occur in the texts drawn)
LowerOf(c) ==
    CASE c = "H" -> "h" [] c = "I" -> "i" [] c = "O" -> "o" [] c = "K" -> "k" [] c = "B" -> "b" [] c = "W" -> "w" [] c = "G" -> "g"
      [] OTHER -> c

Lower(text) == [i \in 1..Len(text) |-> LowerOf(text[i])]

\* str.startswith(prefix)
StartsWith(text, prefix) ==
    Len(prefix) <= Len(text) /\ SubSeq(text, 1, Len(prefix)) = prefix

\* str.split(): the maximal runs of characters that are not white space; i is the
\* position read next and word the run read so far
RECURSIVE Split(_, _, _)
Split(text, i, word) ==
    LET done == IF word = <<>> THEN <<>> ELSE <<word>>
    IN  IF i > Len(text) THEN done
        ELSE IF IsSpace(text[i]) THEN done \o Split(text, i + 1, <<>>)
        ELSE Split(text, i + 1, Append(word, text[i]))

small_talk_prefixes ==
    <<<<"h", "i">>,
      <<"h", "e", "l", "l", "o">>,
      <<"h", "e", "y">>,
      <<"g", "o", "o", "d", " ", "m", "o", "r", "n", "i", "n", "g">>,
      <<"g", "o", "o", "d", " ", "e", "v", "e", "n", "i", "n", "g">>,
      <<"t", "h", "a", "n", "k", "s">>,
      <<"t", "h", "a", "n", "k", " ", "y", "o", "u">>,
      <<"o", "k">>,
      <<"o", "k", "a", "y">>,
      <<"b", "y", "e">>,
      <<"g", "o", "o", "d", "b", "y", "e">>>>

MIN_QUESTION_WORDS == 4

MIN_ANSWER_WORDS == 6

\* mutant: the question is lowercased but not trimmed before the prefix test
ShouldStoreUntrimmed(question, answer) ==
    LET q_lower == Lower(question)
    IN  IF \E i \in 1..Len(small_talk_prefixes) : StartsWith(q_lower, small_talk_prefixes[i])
        THEN FALSE
        ELSE IF \/ Len(Split(question, 1, <<>>)) < MIN_QUESTION_WORDS
                \/ Len(Split(answer, 1, <<>>)) < MIN_ANSWER_WORDS
        THEN FALSE
        ELSE TRUE

should_store_in_vector_memory(question, answer) ==
    LET q_lower == Lower(Strip(question))
    IN  IF \E i \in 1..Len(small_talk_prefixes) : StartsWith(q_lower, small_talk_prefixes[i])
        THEN FALSE
        ELSE IF \/ Len(Split(question, 1, <<>>)) < MIN_QUESTION_WORDS
                \/ Len(Split(answer, 1, <<>>)) < MIN_ANSWER_WORDS
        THEN FALSE
        ELSE TRUE

----------------------------------------------------------------------------
(* Conversation history, database.py:68-80 *)

\* the rows of the messages table are kept in insertion order; a row is
\* [conversation_id, role, content, timestamp]
RowsOf(db, conversation_id) ==
    SelectSeq(db, LAMBDA row : row.conversation_id = conversation_id)

\* SELECT role, content, timestamp
Selected(row) == [role |-> row.role, content |-> row.content, timestamp |-> row.timestamp]

\* ORDER BY timestamp ASC: every order of the rows with ascending timestamp;
\* rows of equal timestamp come in an order the query does not fix
OrderedByTimestamp(rows) ==
    {[i \in 1..Len(rows) |-> Selected(rows[perm[i]])] :
        perm \in {f \in [1..Len(rows) -> 1..Len(rows)] :
                    /\ \A a, b \in 1..Len(rows) : a < b => f[a] # f[b]
                    /\ \A a, b \in 1..Len(rows) :
                          a < b => rows[f[a]].timestamp <= rows[f[b]].timestamp}}

\* get_messages(conversation_id): the lists it can return; without a connection
\* (get_db_connection returned None) it returns the empty list
get_messages(db, conversation_id) ==
    {<<>>} \cup OrderedByTimestamp(RowsOf(db, conversation_id))

get_chat_history(db, conversation_id) == get_messages(db, conversation_id)

----------------------------------------------------------------------------
(* Writing to the database, database.py:8-66 and 82-116.  D is the database:
   D.conversations the rows of the conversations table, D.messages the rows of
   the messages table, both in insertion order.  The tables are declared outside
   the sources: messages.conversation_id refers to conversations.conversation_id
   and the rows of a deleted conversation are deleted with it
   (test_database_standalone.py:238-272). *)

\* get_db_connection(): a connection (TRUE), or None when connecting fails
get_db_connection == {TRUE, FALSE}

DEFAULT_TITLE == <<"New Chat">>

TITLE_MAX == 50

ConversationExists(D, conversation_id) ==
    \E i \in 1..Len(D.conversations) : D.conversations[i].conversation_id = conversation_id

\* ensure_conversation_exists(conversation_id, title): without a connection
\* nothing is done; a conversation row is inserted when SELECT 1 finds none
ensure_conversation_exists(D, conversation_id, title) ==
    {[connected |-> conn,
      db |-> IF conn /\ ~ConversationExists(D, conversation_id)
             THEN [D EXCEPT !.conversations =
                     Append(@, [conversation_id |-> conversation_id, title |-> title,
                                updated_at |-> None])]
             ELSE D] :
     conn \in get_db_connection}

\* content[:50] + "..." if len(content) > 50 else content
TitleOf(content) ==
    IF Len(content) > TITLE_MAX THEN SubSeq(content, 1, TITLE_MAX) \o <<"...">> ELSE content

\* the statements of add_message run on its connection and committed together;
\* t is CURRENT_TIMESTAMP
InsertMessage(D, conversation_id, role, content, t) ==
    LET messages == Append(D.messages,
                           [conversation_id |-> conversation_id, role |-> role,
                            content |-> content, timestamp |-> t])
        count    == Len(RowsOf(messages, conversation_id))
    IN  [conversations |->
            [i \in 1..Len(D.conversations) |->
                LET c == D.conversations[i]
                IN  IF c.conversation_id # conversation_id THEN c
                    ELSE [c EXCEPT !.updated_at = Some(t),
                                   !.title = IF role = "user" /\ count = 1
                                             THEN TitleOf(content) ELSE @]],
         messages |-> messages]

\* the reference from messages to conversations: a message row is accepted only
\* for an identifier that has a conversation row
ReferenceHolds(D, conversation_id) == ConversationExists(D, conversation_id)

\* the rows of the messages table that referred to a deleted conversation row
\* are deleted with it
OnDeleteCascade(D, conversation_id) ==
    [D EXCEPT !.messages = SelectSeq(@, LAMBDA r : r.conversation_id # conversation_id)]

AddResult(ensured, connected, raised, db) ==
    [ensure_connected |-> ensured, connected |-> connected, raised |-> raised, db |-> db]

\* mutant: the message is inserted without ensure_conversation_exists
AddMessageNoEnsure(D, conversation_id, role, content, t) ==
    UNION {IF ~conn THEN {AddResult(TRUE, FALSE, FALSE, D)}
           ELSE {AddResult(TRUE, TRUE, TRUE, D),
                 AddResult(TRUE, TRUE, FALSE,
                           InsertMessage(D, conversation_id, role, content, t))} :
           conn \in get_db_connection}

\* add_message(conversation_id, role, content): the outcomes it can have.  Without
\* a connection it returns without storing; a statement that fails
\* (mysql.connector.Error) raises before the commit
add_message(D, conversation_id, role, content, t) ==
    UNION {IF ~conn THEN {AddResult(e.connected, FALSE, FALSE, e.db)}
           ELSE IF ~ReferenceHolds(e.db, conversation_id)
           THEN {AddResult(e.connected, TRUE, TRUE, e.db)}
           ELSE {AddResult(e.connected, TRUE, TRUE, e.db),
                 AddResult(e.connected, TRUE, FALSE,
                           InsertMessage(e.db, conversation_id, role, content, t))} :
           e \in ensure_conversation_exists(D, conversation_id, DEFAULT_TITLE),
           conn \in get_db_connection}

DeleteResult(connected, raised, db) ==
    [connected |-> connected, raised |-> raised, db |-> db]

\* DELETE FROM conversations WHERE conversation_id = %s
DeleteConversationRow(D, conversation_id) ==
    [D EXCEPT !.conversations =
        SelectSeq(@, LAMBDA c : c.conversation_id # conversation_id)]

\* mutant: the DELETE is not committed before the connection is closed
DeleteUncommitted(D, conversation_id) ==
    {DeleteResult(conn, FALSE, D) : conn \in get_db_connection}
        \cup {DeleteResult(TRUE, TRUE, D)}

\* delete_conversation(conversation_id): the outcomes it can have.  Without a
\* connection it returns without deleting; a statement that fails raises
delete_conversation(D, conversation_id) ==
    {DeleteResult(FALSE, FALSE, D), DeleteResult(TRUE, TRUE, D),
     DeleteResult(TRUE, FALSE,
                  OnDeleteCascade(DeleteConversationRow(D, conversation_id),
                                  conversation_id))}

----------------------------------------------------------------------------
(* Prompt assembler, model.py:156-259 *)

MAX_HISTORY_TOKENS == 1200

MAX_VECTOR_QA_TOKENS == 800

SYSTEM_INSTRUCTION ==
    <<"You are a concise, helpful QA assistant. Answer the user's question clearly and accurately. If you are unsure, say that you don't know.">>

CountPieces(text, piece) == Cardinality({i \in 1..Len(text) : text[i] = piece})

\* the vector the embedding service returns for a text: a fixed function of the
\* text, of one fixed dimension
EmbeddingOf(text) ==
    <<1 + CountPieces(text, "w"), CountPieces(text, "PASSAGE") + CountPieces(text, "y")>>

\* embed_text(text): the embedding, or the request fails and the call raises
embed_text(text) == {[raised |-> TRUE, embedding |-> <<>>],
                     [raised |-> FALSE, embedding |-> EmbeddingOf(text)]}

ContextResult(raised, embed_calls, qa_context) ==
    [raised |-> raised, embed_calls |-> embed_calls, qa_context |-> qa_context]

\* mutant: the question is embedded before the store is asked whether it is empty
ContextEmbedFirst(S, question) ==
    UNION {
      IF e.raised THEN {ContextResult(TRUE, 1, <<>>)}
      ELSE IF is_empty(S) THEN {ContextResult(FALSE, 1, <<>>)}
      ELSE {IF r.raised THEN ContextResult(TRUE, 1, <<>>)
            ELSE ContextResult(FALSE, 1,
                    select_vector_qa_within_budget(r.results, MAX_VECTOR_QA_TOKENS)) :
            r \in search(S, e.embedding, TOP_K)} :
      e \in embed_text(question)}

\* mutant: every entry of the store is asked for, not the TOP_K best
ContextTopAll(S, question) ==
    IF is_empty(S) THEN {ContextResult(FALSE, 0, <<>>)}
    ELSE UNION {
           IF e.raised THEN {ContextResult(TRUE, 1, <<>>)}
           ELSE {IF r.raised THEN ContextResult(TRUE, 1, <<>>)
                 ELSE ContextResult(FALSE, 1,
                         select_vector_qa_within_budget(r.results, MAX_VECTOR_QA_TOKENS)) :
                 r \in search(S, e.embedding, ntotal(S))} :
           e \in embed_text(question)}

\* build_vector_memory_context(question): the outcomes it can have
build_vector_memory_context(S, question) ==
    IF is_empty(S) THEN {ContextResult(FALSE, 0, <<>>)}
    ELSE UNION {
           IF e.raised THEN {ContextResult(TRUE, 1, <<>>)}
           ELSE {IF r.raised THEN ContextResult(TRUE, 1, <<>>)
                 ELSE ContextResult(FALSE, 1,
                         select_vector_qa_within_budget(r.results, MAX_VECTOR_QA_TOKENS)) :
                 r \in search(S, e.embedding, TOP_K)} :
           e \in embed_text(question)}

\* "\n".join(lines)
RECURSIVE JoinLines(_, _)
JoinLines(lines, i) ==
    IF i > Len(lines) THEN <<>>
    ELSE IF i = Len(lines) THEN lines[i]
    ELSE lines[i] \o <<"\n">> \o JoinLines(lines, i + 1)

\* the lines of the context turn: the header, then Q{idx}, A{idx} and a blank
\* line for each pair
RECURSIVE QALines(_, _)
QALines(qa_context, idx) ==
    IF idx > Len(qa_context) THEN <<>>
    ELSE << <<"Q", ToString(idx), ": ">> \o qa_context[idx][1],
            <<"A", ToString(idx), ": ">> \o qa_context[idx][2],
            <<>> >> \o QALines(qa_context, idx + 1)

ContextHeader ==
    <<"Here", " are", " some", " relevant", " previous", " Q", "&", "A", " you",
      " have", " given", ":">>

ContextTurn(qa_context) ==
    [role |-> "system",
     content |-> Strip(JoinLines(<<ContextHeader>> \o QALines(qa_context, 1), 1))]

BuildResult(raised, hist, ctx, messages) ==
    [raised |-> raised, history |-> hist, embed_calls |-> ctx.embed_calls,
     qa_context |-> ctx.qa_context, messages |-> messages]

\* mutant: the question is appended before the recent history
BuildQuestionBeforeHistory(db, S, conversation_id, question) ==
    {IF ctx.raised THEN BuildResult(TRUE, hist, ctx, <<>>)
     ELSE BuildResult(FALSE, hist, ctx,
            <<[role |-> "system", content |-> SYSTEM_INSTRUCTION]>>
            \o (IF ctx.qa_context # <<>> THEN <<ContextTurn(ctx.qa_context)>> ELSE <<>>)
            \o <<[role |-> "user", content |-> question]>>
            \o select_recent_messages_within_budget(hist, MAX_HISTORY_TOKENS)) :
     hist \in get_chat_history(db, conversation_id),
     ctx \in build_vector_memory_context(S, question)}

\* mutant: the recent history is appended before the context turn
BuildHistoryBeforeContext(db, S, conversation_id, question) ==
    {IF ctx.raised THEN BuildResult(TRUE, hist, ctx, <<>>)
     ELSE BuildResult(FALSE, hist, ctx,
            <<[role |-> "system", content |-> SYSTEM_INSTRUCTION]>>
            \o select_recent_messages_within_budget(hist, MAX_HISTORY_TOKENS)
            \o (IF ctx.qa_context # <<>> THEN <<ContextTurn(ctx.qa_context)>> ELSE <<>>)
            \o <<[role |-> "user", content |-> question]>>) :
     hist \in get_chat_history(db, conversation_id),
     ctx \in build_vector_memory_context(S, question)}

\* build_messages_for_model(conversation_id, question): the outcomes it can have
build_messages_for_model(db, S, conversation_id, question) ==
    {IF ctx.raised THEN BuildResult(TRUE, hist, ctx, <<>>)
     ELSE BuildResult(FALSE, hist, ctx,
            <<[role |-> "system", content |-> SYSTEM_INSTRUCTION]>>
            \o (IF ctx.qa_context # <<>> THEN <<ContextTurn(ctx.qa_context)>> ELSE <<>>)
            \o select_recent_messages_within_budget(hist, MAX_HISTORY_TOKENS)
            \o <<[role |-> "user", content |-> question]>>) :
     hist \in get_chat_history(db, conversation_id),
     ctx \in build_vector_memory_context(S, question)}

----------------------------------------------------------------------------
(* Inputs of the window selectors *)

Roles == {"user", "assistant"}

\* contents of 0, 1 and 3 tokens: turns of 3, 4 and 6 tokens
WindowContents == {Words(0), Words(1), Words(3)}

\* a turn as a caller builds it, and as a row of get_messages (database.py:74)
PlainTurns == [role : Roles, content : WindowContents]

Stamped(h) == [i \in 1..Len(h) |->
                 [role |-> h[i].role, content |-> h[i].content, timestamp |-> i]]

Histories == LET plain == SeqsUpTo(PlainTurns, MaxHistory)
             IN  plain \cup {Stamped(h) : h \in plain}

\* retrieved (question, answer) pairs of 8, 9, 11 and 12 tokens
WindowPairs == {Words(1), Words(2)} \X {Words(1), Words(4)}

PairLists == SeqsUpTo(WindowPairs, MaxPairs)

Budgets == 0..MaxBudget

\* the store and the assembler are not part of the selector harness
StoreIdle ==
    /\ _questions = <<>> /\ _answers = <<>> /\ _index = None /\ _dim = None
    /\ op = [name |-> "none"]

\* no conversation row, no database call, no ask_question call, no heuristic input
\* no request is served and no call runs on another thread
ApiIdle == http = [pc |-> "idle"] /\ threads = <<>>

FlowIdle ==
    /\ db_conversations = <<>> /\ now = 1 /\ dbop = [name |-> "none"]
    /\ ask = [pc |-> "idle"] /\ retain = [pc |-> "idle"]

AsmIdle == db_messages = <<>> /\ call = [name |-> "none"] /\ FlowIdle /\ ApiIdle

WindowIdle ==
    /\ fn = "none" /\ history = <<>> /\ qa_pairs = <<>> /\ max_tokens = 0
    /\ selected = <<>> /\ pc = "idle"

InitWindow ==
    /\ StoreIdle /\ AsmIdle
    /\ max_tokens \in Budgets
    /\ selected = <<>>
    /\ pc = "input"
    /\ \/ fn = "recent"    /\ history \in Histories /\ qa_pairs = <<>>
       \/ fn = "vector_qa" /\ history = <<>>       /\ qa_pairs \in PairLists

\* selected = select_recent_messages_within_budget(history, max_tokens)
SelectRecent ==
    /\ pc = "input" /\ fn = "recent"
    /\ selected' = select_recent_messages_within_budget(history, max_tokens)
    /\ pc' = "done"
    /\ UNCHANGED <<fn, history, qa_pairs, max_tokens, storeVars, asmVars, dbVars, flowVars, apiVars>>

\* selected = select_vector_qa_within_budget(qa_pairs, max_tokens)
SelectVectorQA ==
    /\ pc = "input" /\ fn = "vector_qa"
    /\ selected' = select_vector_qa_within_budget(qa_pairs, max_tokens)
    /\ pc' = "done"
    /\ UNCHANGED <<fn, history, qa_pairs, max_tokens, storeVars, asmVars, dbVars, flowVars, apiVars>>

\* the selector applied to its own result with the same budget
SelectRecentAgain ==
    /\ pc = "done" /\ fn = "recent"
    /\ history' = selected
    /\ selected' = select_recent_messages_within_budget(selected, max_tokens)
    /\ pc' = "again"
    /\ UNCHANGED <<fn, qa_pairs, max_tokens, storeVars, asmVars, dbVars, flowVars, apiVars>>

SelectVectorQAAgain ==
    /\ pc = "done" /\ fn = "vector_qa"
    /\ qa_pairs' = selected
    /\ selected' = select_vector_qa_within_budget(selected, max_tokens)
    /\ pc' = "again"
    /\ UNCHANGED <<fn, history, max_tokens, storeVars, asmVars, dbVars, flowVars, apiVars>>

NextWindow ==
    \/ SelectRecent
    \/ SelectVectorQA
    \/ SelectRecentAgain
    \/ SelectVectorQAAgain

SpecWindow == InitWindow /\ [][NextWindow]_vars

----------------------------------------------------------------------------
(* The semantic store driven through its methods *)

\* the (question, answer) texts handed to add
StoreExchanges == {<<<<"q1">>, <<"a1">>>>, <<<<"q2">>, <<"a2">>>>}

\* embeddings of one and of two dimensions; <<1, 1>> and <<2, 2>> are parallel
Embeddings == {<<1>>, <<1, 0>>, <<1, 1>>, <<2, 2>>}

\* query embeddings: the stored ones and one at an obtuse angle to <<1, 0>>
Queries == Embeddings \cup {<<-1, 1>>}

\* top_k: a request for nothing, for one neighbour, and the default
TopKs == {0, 1, TOP_K}

Store == [questions |-> _questions, answers |-> _answers, index |-> _index, dim |-> _dim]

SetStore(S) ==
    /\ _questions' = S.questions
    /\ _answers' = S.answers
    /\ _index' = S.index
    /\ _dim' = S.dim

\* vector_store = FaissQAVectorStore()
Init == StoreIdle /\ WindowIdle /\ AsmIdle

Add(question, answer, embedding) ==
    /\ Len(_questions) < MaxEntries
    /\ LET r == add(Store, question, answer, embedding)
       IN  /\ SetStore(r.store)
           /\ op' = [name |-> "add", raised |-> r.raised, embedding |-> embedding]
    /\ UNCHANGED <<windowVars, asmVars, dbVars, flowVars, apiVars>>

Search(query_embedding, top_k) ==
    /\ \E r \in search(Store, query_embedding, top_k) :
          op' = [name |-> "search", raised |-> r.raised, embedding |-> query_embedding,
                 top_k |-> top_k, asked |-> r.asked, indices |-> r.indices,
                 results |-> r.results]
    /\ UNCHANGED <<_questions, _answers, _index, _dim, windowVars, asmVars, dbVars, flowVars, apiVars>>

Next ==
    \/ \E exchange \in StoreExchanges, embedding \in Embeddings :
          Add(exchange[1], exchange[2], embedding)
    \/ \E query_embedding \in Queries, top_k \in TopKs :
          Search(query_embedding, top_k)

Spec == Init /\ [][Next]_vars

----------------------------------------------------------------------------
(* The prompt assembler called on a history and a store *)

Conversations == {"c1", "c2"}

\* a one-word text and a passage of PassageTokens tokens
AsmContents == {<<"w">>, <<"PASSAGE">>}

AsmQuestions == {<<"w">>, <<"PASSAGE">>}

\* what the rows of the messages table hold
RowKinds ==
    [conversation_id : {"c1"}, role : Roles, content : AsmContents]
    \cup [conversation_id : {"c2"}, role : {"user"}, content : {<<"w">>}]

\* CURRENT_TIMESTAMP of the rows in insertion order: a row is inserted in the
\* same second as the row before it or in the next one
Timestamps(n) ==
    {t \in [1..n -> 1..n] :
        /\ n >= 1 => t[1] = 1
        /\ \A i \in 1..(n - 1) : t[i + 1] \in {t[i], t[i] + 1}}

Tables ==
    UNION {{[i \in 1..n |-> [conversation_id |-> kinds[i].conversation_id,
                             role |-> kinds[i].role,
                             content |-> kinds[i].content,
                             timestamp |-> t[i]]] :
               kinds \in [1..n -> RowKinds], t \in Timestamps(n)} :
           n \in 0..MaxRows}

\* an answer that with a one-word question fills the context budget: the
\* rendered pair costs 7 + PassageTokens + ParagraphTokens tokens
FillingAnswer == <<"PASSAGE", "PARAGRAPH">>

\* retained exchanges: a short one, one with a long answer that fits the context
\* budget once, and one that exceeds the budget alone
AsmExchanges ==
    {<<<<"w", "w">>, <<"w">>>>, <<<<"w">>, FillingAnswer>>, <<<<"PASSAGE">>, <<"PASSAGE">>>>}

\* more short exchanges than one retrieval returns, their questions embedded in
\* six different directions
ManyExchanges ==
    <<<<<<"w">>, <<"w">>>>, <<<<"y">>, <<"w">>>>, <<<<"w", "y">>, <<"w">>>>,
      <<<<"y", "y">>, <<"w">>>>, <<<<"w", "w", "y">>, <<"w">>>>,
      <<<<"y", "y", "y">>, <<"w">>>>>>

\* the store after the exchanges were added with the embedding of their question
\* (update_memories_after_response, model.py:288-289)
RECURSIVE StoreAfter(_, _)
StoreAfter(exchanges, n) ==
    IF n = 0 THEN EmptyStore
    ELSE add(StoreAfter(exchanges, n - 1), exchanges[n][1], exchanges[n][2],
             EmbeddingOf(exchanges[n][1])).store

InitAssemble ==
    /\ WindowIdle
    /\ op = [name |-> "none"]
    /\ call = [name |-> "none"]
    /\ FlowIdle /\ ApiIdle
    /\ db_messages \in Tables
    /\ \E exchanges \in SeqsUpTo(AsmExchanges, MaxStored) \cup {ManyExchanges} :
          LET S == StoreAfter(exchanges, Len(exchanges))
          IN  /\ exchanges = ManyExchanges => db_messages = <<>>
              /\ _questions = S.questions
              /\ _answers = S.answers
              /\ _index = S.index
              /\ _dim = S.dim

\* messages = build_messages_for_model(conversation_id, question)
Assemble(conversation_id, question) ==
    /\ call.name = "none"
    /\ \E r \in build_messages_for_model(db_messages, Store, conversation_id, question) :
          call' = [name |-> "build_messages_for_model",
                   conversation_id |-> conversation_id, question |-> question,
                   raised |-> r.raised, history |-> r.history,
                   embed_calls |-> r.embed_calls, qa_context |-> r.qa_context,
                   messages |-> r.messages]
    /\ UNCHANGED <<db_messages, storeVars, windowVars, dbVars, flowVars, apiVars>>

NextAssemble ==
    \E conversation_id \in Conversations, question \in AsmQuestions :
        Assemble(conversation_id, question)

SpecAssemble == InitAssemble /\ [][NextAssemble]_vars

----------------------------------------------------------------------------
(* The database driven through add_message and get_messages *)

\* the messages written: a question and an answer to "c1", a question to "c2"
DbWrites ==
    {[conversation_id |-> "c1", role |-> "user", content |-> <<"m1">>],
     [conversation_id |-> "c1", role |-> "assistant", content |-> <<"m2">>],
     [conversation_id |-> "c2", role |-> "user", content |-> <<"m1">>]}

DB == [conversations |-> db_conversations, messages |-> db_messages]

\* the message is inserted in the second of the call before it or in the next
\* one (the clock is followed up to MaxMessages)
AddMessage(conversation_id, role, content) ==
    /\ Len(db_messages) < MaxMessages
    /\ \E t \in {now, Min(now + 1, MaxMessages)} :
          \E r \in add_message(DB, conversation_id, role, content, t) :
             /\ db_conversations' = r.db.conversations
             /\ db_messages' = r.db.messages
             /\ now' = t
             /\ dbop' = [name |-> "add_message", conversation_id |-> conversation_id,
                         role |-> role, content |-> content,
                         ensure_connected |-> r.ensure_connected,
                         connected |-> r.connected, raised |-> r.raised,
                         existed |-> ConversationExists(DB, conversation_id),
                         title_before |->
                            IF ConversationExists(DB, conversation_id)
                            THEN (CHOOSE c \in Range(db_conversations) :
                                     c.conversation_id = conversation_id).title
                            ELSE DEFAULT_TITLE,
                         rows_before |-> RowsOf(db_messages, conversation_id)]
    /\ UNCHANGED <<storeVars, windowVars, call, flowVars, apiVars>>

DeleteConversation(conversation_id) ==
    /\ \E r \in delete_conversation(DB, conversation_id) :
          /\ db_conversations' = r.db.conversations
          /\ db_messages' = r.db.messages
          /\ dbop' = [name |-> "delete_conversation", conversation_id |-> conversation_id,
                      connected |-> r.connected, raised |-> r.raised,
                      existed |-> ConversationExists(DB, conversation_id),
                      rows_before |-> RowsOf(db_messages, conversation_id)]
    /\ UNCHANGED <<storeVars, windowVars, call, now, flowVars, apiVars>>

GetMessages(conversation_id) ==
    /\ \E r \in get_messages(db_messages, conversation_id) :
          dbop' = [name |-> "get_messages", conversation_id |-> conversation_id,
                   result |-> r]
    /\ UNCHANGED <<storeVars, windowVars, asmVars, db_conversations, now, flowVars, apiVars>>

NextDB ==
    \/ \E w \in DbWrites : AddMessage(w.conversation_id, w.role, w.content)
    \/ \E conversation_id \in Conversations : GetMessages(conversation_id)
    \/ \E conversation_id \in Conversations : DeleteConversation(conversation_id)

SpecDB == Init /\ [][NextDB]_vars

----------------------------------------------------------------------------
(* ask_question, model.py:262-304, one call at a time.  ask.pc is the statement
   the call has reached; a call that raised is "failed", the exception having
   left ask_question (there is no try in model.py). *)

\* the calls are made on one conversation
AskConversations == {"c1"}

\* the questions asked: a greeting and a question of four words
AskQuestions == {<<"h", "i">>, WordsText(4)}

\* an exchange retained before: a question of five words, an answer of six
AskRetained == <<WordsText(5), WordsText(6)>>

\* message.content of the completion: a short reply, a sentence of six words
\* followed by a line break, and six words of which two are passages (an answer
\* that exceeds the context budget)
Completions ==
    {<<"o", "k">>, WordsText(6) \o <<"\n">>, <<"PASSAGE", " ", "PASSAGE">> \o MoreWords(4)}

\* call_model(messages): the request fails and the call raises, or it returns
\* resp.choices[0].message.content.strip()
call_model(messages) ==
    {[raised |-> TRUE, answer |-> <<>>]}
    \cup {[raised |-> FALSE, answer |-> Strip(content)] : content \in Completions}

IdleAsk ==
    [pc |-> "idle", conversation_id |-> "", question |-> <<>>, messages |-> <<>>,
     answer |-> <<>>, result |-> None, failed_at |-> "none",
     embed_assemble |-> 0, embed_record |-> 0, generate_calls |-> 0,
     inserted |-> 0, persist_raised |-> FALSE, retain_evaluated |-> FALSE,
     db0 |-> DB, store0 |-> Store, log |-> <<>>]

\* what the caller saw of a finished call
LogEntry(a, returned) ==
    [conversation_id |-> a.conversation_id, question |-> a.question,
     answer |-> a.answer, returned |-> returned, inserted |-> a.inserted]

\* the exception leaves ask_question
Raise(a, at) ==
    [a EXCEPT !.pc = "failed", !.failed_at = at, !.log = Append(@, LogEntry(a, FALSE))]

\* the history is empty; the store, which outlives the conversations, is empty
\* or holds an exchange retained by an earlier call
InitAnswer ==
    /\ WindowIdle
    /\ op = [name |-> "none"]
    /\ \E S \in {EmptyStore, StoreAfter(<<AskRetained>>, 1)} :
          /\ _questions = S.questions
          /\ _answers = S.answers
          /\ _index = S.index
          /\ _dim = S.dim
    /\ db_messages = <<>> /\ call = [name |-> "none"]
    /\ db_conversations = <<>> /\ now = 1 /\ dbop = [name |-> "none"]
    /\ retain = [pc |-> "idle"]
    /\ ask = IdleAsk
    /\ ApiIdle

\* ask_question(question, conversation_id) is called
AskQuestion(question, conversation_id) ==
    /\ ask.pc \in {"idle", "returned", "failed"}
    /\ Len(ask.log) < MaxCalls
    /\ ask' = [IdleAsk EXCEPT !.pc = "assemble", !.conversation_id = conversation_id,
                              !.question = question, !.log = ask.log]
    /\ UNCHANGED <<storeVars, windowVars, asmVars, dbVars, retain, apiVars>>

\* mutant: the prompt is assembled from a store of the conversation's own,
\* which holds nothing yet
BuildMessagesOwnStore ==
    /\ ask.pc = "assemble"
    /\ \E r \in build_messages_for_model(db_messages, EmptyStore, ask.conversation_id,
                                         ask.question) :
          LET a == [ask EXCEPT !.embed_assemble = r.embed_calls]
          IN  ask' = IF r.raised THEN Raise(a, "assemble")
                     ELSE [a EXCEPT !.pc = "generate", !.messages = r.messages]
    /\ UNCHANGED <<storeVars, windowVars, asmVars, dbVars, retain, apiVars>>

\* messages = build_messages_for_model(conversation_id, question)
BuildMessages ==
    /\ ask.pc = "assemble"
    /\ \E r \in build_messages_for_model(db_messages, Store, ask.conversation_id,
                                         ask.question) :
          LET a == [ask EXCEPT !.embed_assemble = r.embed_calls]
          IN  ask' = IF r.raised THEN Raise(a, "assemble")
                     ELSE [a EXCEPT !.pc = "generate", !.messages = r.messages]
    /\ UNCHANGED <<storeVars, windowVars, asmVars, dbVars, retain, apiVars>>

\* mutant: the question is saved to the history before the model is called
CallModelAfterSave ==
    /\ ask.pc = "generate"
    /\ \E r \in call_model(ask.messages) :
          LET a == [ask EXCEPT !.generate_calls = @ + 1]
              e == CHOOSE x \in ensure_conversation_exists(DB, ask.conversation_id,
                                                           DEFAULT_TITLE) : x.connected
              D == InsertMessage(e.db, ask.conversation_id, "user", ask.question, now)
          IN  /\ ask' = IF r.raised THEN Raise(a, "generate")
                        ELSE [a EXCEPT !.pc = "persist_answer", !.answer = r.answer,
                                       !.inserted = 1]
              /\ db_conversations' = D.conversations
              /\ db_messages' = D.messages
    /\ UNCHANGED <<storeVars, windowVars, call, now, dbop, retain, apiVars>>

\* mutant: a failed request to the model is sent a second time
CallModelRetry ==
    /\ ask.pc = "generate"
    /\ \E r1 \in call_model(ask.messages), r2 \in call_model(ask.messages) :
          LET n == IF r1.raised THEN 2 ELSE 1
              r == IF r1.raised THEN r2 ELSE r1
              a == [ask EXCEPT !.generate_calls = @ + n]
          IN  ask' = IF r.raised THEN Raise(a, "generate")
                     ELSE [a EXCEPT !.pc = "persist_question", !.answer = r.answer]
    /\ UNCHANGED <<storeVars, windowVars, asmVars, dbVars, retain, apiVars>>

\* answer = call_model(messages)
CallModel ==
    /\ ask.pc = "generate"
    /\ \E r \in call_model(ask.messages) :
          LET a == [ask EXCEPT !.generate_calls = @ + 1]
          IN  ask' = IF r.raised THEN Raise(a, "generate")
                     ELSE [a EXCEPT !.pc = "persist_question", !.answer = r.answer]
    /\ UNCHANGED <<storeVars, windowVars, asmVars, dbVars, retain, apiVars>>

\* database.add_message(conversation_id, role, content) inside
\* update_memories_after_response; an exception of add_message is not caught
Persist(role, content, next) ==
    \E t \in {now, Min(now + 1, MaxMessages)} :
       \E r \in add_message(DB, ask.conversation_id, role, content, t) :
          /\ db_conversations' = r.db.conversations
          /\ db_messages' = r.db.messages
          /\ now' = t
          /\ ask' = IF r.raised
                    THEN Raise([ask EXCEPT !.persist_raised = TRUE], "persist")
                    ELSE [ask EXCEPT !.pc = next,
                                     !.inserted = @ + (IF r.connected THEN 1 ELSE 0)]

\* database.add_message(conversation_id, 'user', question)
PersistQuestion ==
    /\ ask.pc = "persist_question"
    /\ Persist("user", ask.question, "persist_answer")
    /\ UNCHANGED <<storeVars, windowVars, call, dbop, retain, apiVars>>

\* database.add_message(conversation_id, 'assistant', answer)
PersistAnswer ==
    /\ ask.pc = "persist_answer"
    /\ Persist("assistant", ask.answer, "retain")
    /\ UNCHANGED <<storeVars, windowVars, call, dbop, retain, apiVars>>

\* return answer
Return(a) ==
    [a EXCEPT !.pc = "returned", !.result = Some(a.answer),
              !.log = Append(@, LogEntry(a, TRUE))]

\* mutant: when the retention step fails the two saved turns are taken back
RetainRollback ==
    /\ ask.pc = "retain"
    /\ LET a == [ask EXCEPT !.retain_evaluated = TRUE]
       IN  IF ~should_store_in_vector_memory(ask.question, ask.answer)
           THEN ask' = Return(a)
                /\ UNCHANGED <<_questions, _answers, _index, _dim, db_conversations, db_messages>>
           ELSE \E e \in embed_text(ask.question) :
                   LET b == [a EXCEPT !.embed_record = 1]
                   IN  IF e.raised
                       THEN /\ ask' = Raise(b, "retain")
                            /\ db_conversations' = ask.db0.conversations
                            /\ db_messages' = ask.db0.messages
                            /\ UNCHANGED <<_questions, _answers, _index, _dim>>
                       ELSE LET r == add(Store, ask.question, ask.answer, e.embedding)
                            IN  /\ SetStore(r.store)
                                /\ ask' = IF r.raised THEN Raise(b, "retain") ELSE Return(b)
                                /\ UNCHANGED <<db_conversations, db_messages>>
    /\ UNCHANGED <<op, windowVars, call, now, dbop, retain, apiVars>>

\* mutant: the exchange is embedded and added whatever the heuristic says
RetainAlways ==
    /\ ask.pc = "retain"
    /\ \E e \in embed_text(ask.question) :
          LET b == [ask EXCEPT !.retain_evaluated = TRUE, !.embed_record = 1]
          IN  IF e.raised
              THEN ask' = Raise(b, "retain")
                   /\ UNCHANGED <<_questions, _answers, _index, _dim>>
              ELSE LET r == add(Store, ask.question, ask.answer, e.embedding)
                   IN  /\ SetStore(r.store)
                       /\ ask' = IF r.raised THEN Raise(b, "retain") ELSE Return(b)
    /\ UNCHANGED <<op, windowVars, asmVars, dbVars, retain, apiVars>>

\* the end of update_memories_after_response, model.py:287-289, and the return
\* of ask_question
Retain ==
    /\ ask.pc = "retain"
    /\ LET a == [ask EXCEPT !.retain_evaluated = TRUE]
       IN  IF ~should_store_in_vector_memory(ask.question, ask.answer)
           THEN ask' = Return(a) /\ UNCHANGED <<_questions, _answers, _index, _dim>>
           ELSE \E e \in embed_text(ask.question) :
                   LET b == [a EXCEPT !.embed_record = 1]
                   IN  IF e.raised
                       THEN ask' = Raise(b, "retain")
                            /\ UNCHANGED <<_questions, _answers, _index, _dim>>
                       ELSE LET r == add(Store, ask.question, ask.answer, e.embedding)
                            IN  /\ SetStore(r.store)
                                /\ ask' = IF r.raised THEN Raise(b, "retain") ELSE Return(b)
    /\ UNCHANGED <<op, windowVars, asmVars, dbVars, retain, apiVars>>

NextAnswer ==
    \/ \E question \in AskQuestions, conversation_id \in AskConversations :
          AskQuestion(question, conversation_id)
    \/ BuildMessages
    \/ CallModel
    \/ PersistQuestion
    \/ PersistAnswer
    \/ Retain

SpecAnswer == InitAnswer /\ [][NextAnswer]_vars

----------------------------------------------------------------------------
(* ask_question called on one conversation and then on another one *)

SharedOrder == <<"c1", "c2">>

\* ask_question(question, conversation_id) on the next conversation
AskInTurn(question) ==
    /\ ask.pc \in {"idle", "returned", "failed"}
    /\ Len(ask.log) < Len(SharedOrder)
    /\ ask' = [IdleAsk EXCEPT !.pc = "assemble",
                              !.conversation_id = SharedOrder[Len(ask.log) + 1],
                              !.question = question, !.log = ask.log]
    /\ UNCHANGED <<storeVars, windowVars, asmVars, dbVars, retain, apiVars>>

NextShared ==
    \/ \E question \in AskQuestions : AskInTurn(question)
    \/ BuildMessages
    \/ CallModel
    \/ PersistQuestion
    \/ PersistAnswer
    \/ Retain

SpecShared == InitAnswer /\ [][NextShared]_vars

----------------------------------------------------------------------------
(* api.py: POST /ask and DELETE /conversations/{conversation_id}, one request
   at a time; between requests the store may be searched.  One question is
   answered; requests that are rejected, deletions and searches come before and
   after it in any number. *)

\* the JSON body of a POST /ask: a field is missing (None) or holds a string
AskBodies ==
    [conversation_id : {None, Some("")} \cup {Some(c) : c \in AskConversations},
     question : {None, Some(<<>>)} \cup {Some(q) : q \in AskQuestions}]

\* class AskRequest(BaseModel): both fields are required strings
Validates(body) == body.conversation_id # None /\ body.question # None

Response(endpoint, body, status, invoked) ==
    [pc |-> "responded", endpoint |-> endpoint, body |-> body, status |-> status,
     invoked |-> invoked]

\* POST /ask up to the call of ask_question: a body that does not validate is
\* answered with 422 before ask(req) is called; ask(req) answers an empty field
\* with 400
PostAsk(body) ==
    /\ http.pc # "handling"
    /\ ask.pc \in {"idle", "returned", "failed"}
    /\ IF ~Validates(body)
       THEN http' = Response("ask", body, 422, FALSE) /\ UNCHANGED ask
       ELSE IF body.conversation_id[1] = "" \/ body.question[1] = <<>>
       THEN http' = Response("ask", body, 400, FALSE) /\ UNCHANGED ask
       ELSE /\ ask.pc = "idle"
            /\ http' = [pc |-> "handling", endpoint |-> "ask", body |-> body]
            /\ ask' = [IdleAsk EXCEPT !.pc = "assemble",
                                      !.conversation_id = body.conversation_id[1],
                                      !.question = body.question[1], !.log = ask.log]
    /\ UNCHANGED <<storeVars, windowVars, asmVars, dbVars, retain, threads>>

\* ask_question has returned or raised: the answer is posted to the webhook (a
\* failure of the post is swallowed) and returned, an exception becomes a 500
RespondAsk ==
    /\ http.pc = "handling"
    /\ ask.pc \in {"returned", "failed"}
    /\ http' = Response("ask", http.body, IF ask.pc = "returned" THEN 200 ELSE 500, TRUE)
    /\ UNCHANGED <<storeVars, windowVars, asmVars, dbVars, flowVars, threads>>

\* mutant: the deletion of a conversation also resets the semantic store
DeleteEndpointResets(conversation_id) ==
    /\ http.pc # "handling"
    /\ \E r \in delete_conversation(DB, conversation_id) :
          /\ db_conversations' = r.db.conversations
          /\ db_messages' = r.db.messages
          /\ dbop' = [name |-> "delete_conversation", conversation_id |-> conversation_id,
                      connected |-> r.connected, raised |-> r.raised,
                      existed |-> ConversationExists(DB, conversation_id),
                      rows_before |-> RowsOf(db_messages, conversation_id)]
          /\ http' = Response("delete", conversation_id,
                              IF r.raised THEN 500 ELSE 200, TRUE)
    /\ SetStore(EmptyStore)
    /\ UNCHANGED <<op, windowVars, call, now, flowVars, threads>>

\* DELETE /conversations/{conversation_id}
DeleteEndpoint(conversation_id) ==
    /\ http.pc # "handling"
    /\ \E r \in delete_conversation(DB, conversation_id) :
          /\ db_conversations' = r.db.conversations
          /\ db_messages' = r.db.messages
          /\ dbop' = [name |-> "delete_conversation", conversation_id |-> conversation_id,
                      connected |-> r.connected, raised |-> r.raised,
                      existed |-> ConversationExists(DB, conversation_id),
                      rows_before |-> RowsOf(db_messages, conversation_id)]
          /\ http' = Response("delete", conversation_id,
                              IF r.raised THEN 500 ELSE 200, TRUE)
    /\ UNCHANGED <<storeVars, windowVars, call, now, flowVars, threads>>

\* vector_store.search for a question of four words, between two requests
SearchBetween ==
    /\ http.pc # "handling"
    /\ Search(EmbeddingOf(WordsText(4)), TOP_K)

NextApi ==
    \/ \E body \in AskBodies : PostAsk(body)
    \/ BuildMessages
    \/ CallModel
    \/ PersistQuestion
    \/ PersistAnswer
    \/ Retain
    \/ RespondAsk
    \/ \E conversation_id \in AskConversations : DeleteEndpoint(conversation_id)
    \/ SearchBetween

SpecApi == InitAnswer /\ [][NextApi]_vars

----------------------------------------------------------------------------
(* Calls on the store running at the same time.  api.py declares ask with def,
   so the server runs the requests on the threads of a pool, and the record
   step of one request (model.py:289) and the retrieval of another
   (model.py:212) reach the one vector_store without a lock.  Each statement of
   add and of search is one step of its thread; index.add, index.search and the
   loop over the positions found are each taken as one step. *)

AddThreads == {1, 2}

SearchThreads == {3}

\* the exchange a thread adds and the embedding of its question
ExchangeOf(t) ==
    [question |-> <<"q", ToString(t)>>, answer |-> <<"a", ToString(t)>>,
     embedding |-> <<1, t>>]

\* the query of the searching thread
RaceQuery == <<1, 1>>

Step(t, pc1) == threads' = [threads EXCEPT ![t].pc = pc1]

InitRace ==
    /\ StoreIdle /\ WindowIdle
    /\ db_messages = <<>> /\ call = [name |-> "none"]
    /\ FlowIdle
    /\ http = [pc |-> "idle"]
    /\ threads = [t \in AddThreads \cup SearchThreads |->
                    IF t \in AddThreads
                    THEN [pc |-> "check", lazy |-> FALSE]
                    ELSE [pc |-> "check", indices |-> <<>>, results |-> <<>>,
                          raised |-> FALSE]]

\* if self._index is None:
AddCheck(t) ==
    /\ threads[t].pc = "check"
    /\ threads' = [threads EXCEPT ![t].lazy = (_index = None),
                                  ![t].pc = IF _index = None THEN "init" ELSE "index_add"]
    /\ UNCHANGED <<storeVars, windowVars, asmVars, dbVars, flowVars, http>>

\* self._dim = emb.shape[0]; self._index = faiss.IndexFlatIP(self._dim)
AddInit(t) ==
    /\ threads[t].pc = "init"
    /\ _dim' = Some(Len(ExchangeOf(t).embedding))
    /\ _index' = Some([d |-> Len(ExchangeOf(t).embedding), xb |-> <<>>])
    /\ Step(t, "index_add")
    /\ UNCHANGED <<_questions, _answers, op, windowVars, asmVars, dbVars, flowVars, http>>

\* faiss.normalize_L2(emb); self._index.add(emb)
AddIndex(t) ==
    /\ threads[t].pc = "index_add"
    /\ _index' = Some([_index[1] EXCEPT
                         !.xb = Append(@, normalize_L2(ExchangeOf(t).embedding))])
    /\ Step(t, "questions")
    /\ UNCHANGED <<_questions, _answers, _dim, op, windowVars, asmVars, dbVars, flowVars, http>>

\* self._questions.append(question)
AddQuestion(t) ==
    /\ threads[t].pc = "questions"
    /\ _questions' = Append(_questions, ExchangeOf(t).question)
    /\ Step(t, "answers")
    /\ UNCHANGED <<_answers, _index, _dim, op, windowVars, asmVars, dbVars, flowVars, http>>

\* self._answers.append(answer)
AddAnswer(t) ==
    /\ threads[t].pc = "answers"
    /\ _answers' = Append(_answers, ExchangeOf(t).answer)
    /\ Step(t, "done")
    /\ UNCHANGED <<_questions, _index, _dim, op, windowVars, asmVars, dbVars, flowVars, http>>

\* if self.is_empty(): return []
SearchCheck(t) ==
    /\ threads[t].pc = "check"
    /\ Step(t, IF is_empty(Store) THEN "done" ELSE "index_search")
    /\ UNCHANGED <<storeVars, windowVars, asmVars, dbVars, flowVars, http>>

\* k = min(top_k, self._index.ntotal); _, indices = self._index.search(q, k)
SearchIndex(t) ==
    /\ threads[t].pc = "index_search"
    /\ LET k == Min(TOP_K, ntotal(Store))
       IN  IF k = 0
           THEN \E raised \in BOOLEAN :
                   threads' = [threads EXCEPT ![t].raised = raised,
                                              ![t].pc = IF raised THEN "done" ELSE "map"]
           ELSE \E I \in IndexSearch(_index[1].xb, normalize_L2(RaceQuery), k) :
                   threads' = [threads EXCEPT ![t].indices = I, ![t].pc = "map"]
    /\ UNCHANGED <<storeVars, windowVars, asmVars, dbVars, flowVars, http>>

\* for idx in indices[0]: results.append((self._questions[idx], self._answers[idx]))
\* a position the lists do not hold yet raises IndexError
SearchMap(t) ==
    /\ threads[t].pc = "map"
    /\ LET I == threads[t].indices
       IN  IF \E i \in 1..Len(I) : I[i] > Len(_questions) \/ I[i] > Len(_answers)
           THEN threads' = [threads EXCEPT ![t].raised = TRUE, ![t].pc = "done"]
           ELSE threads' = [threads EXCEPT
                              ![t].results = [i \in 1..Len(I) |->
                                                <<_questions[I[i]], _answers[I[i]]>>],
                              ![t].pc = "done"]
    /\ UNCHANGED <<storeVars, windowVars, asmVars, dbVars, flowVars, http>>

NextRace ==
    \/ \E t \in AddThreads :
          AddCheck(t) \/ AddInit(t) \/ AddIndex(t) \/ AddQuestion(t) \/ AddAnswer(t)
    \/ \E t \in SearchThreads : SearchCheck(t) \/ SearchIndex(t) \/ SearchMap(t)

SpecRace == InitRace /\ [][NextRace]_vars

----------------------------------------------------------------------------
(* Two add_message calls for one identifier running at the same time
   (database.py:21-34 and 82-116).  Each call works on connections of its own;
   a statement that is committed is one step of its thread, and the statements
   of add_message's own connection are committed together.  The conversations
   table is declared outside the sources: conversation_id is its key. *)

WriterThreads == {1, 2}

\* the message a thread adds to the conversation, which has no row yet
WriteOf(t) ==
    [conversation_id |-> "c1", role |-> "user", content |-> <<"m", ToString(t)>>]

\* the key of the conversations table refuses a second row for an identifier
KeyRefuses(D, conversation_id) == ConversationExists(D, conversation_id)

InitWriters ==
    /\ StoreIdle /\ WindowIdle
    /\ db_messages = <<>> /\ call = [name |-> "none"]
    /\ FlowIdle
    /\ http = [pc |-> "idle"]
    /\ threads = [t \in WriterThreads |->
                    [pc |-> "ensure_connect", ensure_connected |-> FALSE, found |-> FALSE,
                     duplicate |-> FALSE, connected |-> FALSE, fault |-> FALSE]]

\* ensure_conversation_exists: conn = get_db_connection(); if conn:
EnsureConnect(t) ==
    /\ threads[t].pc = "ensure_connect"
    /\ \E conn \in get_db_connection :
          threads' = [threads EXCEPT ![t].ensure_connected = conn,
                                     ![t].pc = IF conn THEN "select" ELSE "connect"]
    /\ UNCHANGED <<storeVars, windowVars, asmVars, dbVars, flowVars, http>>

\* SELECT 1 FROM conversations WHERE conversation_id = %s; if not cursor.fetchone():
EnsureSelect(t) ==
    /\ threads[t].pc = "select"
    /\ LET found == ConversationExists(DB, WriteOf(t).conversation_id)
       IN  threads' = [threads EXCEPT ![t].found = found,
                                      ![t].pc = IF found THEN "connect"
                                                ELSE "insert_conversation"]
    /\ UNCHANGED <<storeVars, windowVars, asmVars, dbVars, flowVars, http>>

\* INSERT INTO conversations (conversation_id, title) VALUES (%s, %s); commit:
\* the INSERT of a row that exists by now raises and the exception leaves
\* add_message
EnsureInsert(t) ==
    /\ threads[t].pc = "insert_conversation"
    /\ IF KeyRefuses(DB, WriteOf(t).conversation_id)
       THEN /\ threads' = [threads EXCEPT ![t].duplicate = TRUE, ![t].pc = "raised"]
            /\ UNCHANGED db_conversations
       ELSE /\ db_conversations' =
                  Append(db_conversations,
                         [conversation_id |-> WriteOf(t).conversation_id,
                          title |-> DEFAULT_TITLE, updated_at |-> None])
            /\ Step(t, "connect")
    /\ UNCHANGED <<storeVars, windowVars, asmVars, now, dbop, flowVars, http>>

\* add_message: conn = get_db_connection(); if conn:
Connect(t) ==
    /\ threads[t].pc = "connect"
    /\ \E conn \in get_db_connection :
          threads' = [threads EXCEPT ![t].connected = conn,
                                     ![t].pc = IF conn THEN "insert_message" ELSE "done"]
    /\ UNCHANGED <<storeVars, windowVars, asmVars, dbVars, flowVars, http>>

\* the statements of add_message up to conn.commit(); a statement that fails
\* raises before the commit
InsertStep(t) ==
    /\ threads[t].pc = "insert_message"
    /\ LET w == WriteOf(t)
       IN  \E ts \in {now, Min(now + 1, MaxMessages)}, fault \in BOOLEAN :
              IF fault \/ ~ReferenceHolds(DB, w.conversation_id)
              THEN /\ threads' = [threads EXCEPT ![t].fault = TRUE, ![t].pc = "raised"]
                   /\ UNCHANGED <<db_conversations, db_messages, now>>
              ELSE LET D == InsertMessage(DB, w.conversation_id, w.role, w.content, ts)
                   IN  /\ db_conversations' = D.conversations
                       /\ db_messages' = D.messages
                       /\ now' = ts
                       /\ Step(t, "done")
    /\ UNCHANGED <<storeVars, windowVars, call, dbop, flowVars, http>>

NextWriters ==
    \E t \in WriterThreads :
        EnsureConnect(t) \/ EnsureSelect(t) \/ EnsureInsert(t) \/ Connect(t) \/ InsertStep(t)

SpecWriters == InitWriters /\ [][NextWriters]_vars

----------------------------------------------------------------------------
(* The retention heuristic applied to a question and an answer *)

\* how a question starts: small-talk markers in lower and upper case, words that
\* only begin with a marker ("his", "okra"), words that are no marker
FirstWords ==
    {<<"h", "i">>, <<"H", "I">>, <<"h", "i", "s">>, <<"O", "k">>, <<"o", "k", "r", "a">>,
     <<"b", "y", "e">>, <<"g", "o", "o", "d", " ", "m", "o", "r", "n", "i", "n", "g">>,
     <<"g", "o", "o", "d">>, <<"h">>, <<"w", "h", "o">>}

RetainQuestions ==
    {<<>>, <<" ">>}
    \cup {lead \o first \o MoreWords(k) \o trail :
             lead \in {<<>>, <<" ">>}, first \in FirstWords,
             k \in 0..MaxExtraWords, trail \in {<<>>, <<"\n">>}}

RetainAnswers == {WordsText(n) : n \in 0..MaxAnswerWords}

InitRetain ==
    /\ StoreIdle /\ WindowIdle
    /\ db_messages = <<>> /\ call = [name |-> "none"]
    /\ db_conversations = <<>> /\ now = 1 /\ dbop = [name |-> "none"]
    /\ ask = [pc |-> "idle"]
    /\ ApiIdle
    /\ \E question \in RetainQuestions, answer \in RetainAnswers :
          retain = [pc |-> "input", question |-> question, answer |-> answer]

\* result = should_store_in_vector_memory(question, answer)
ShouldStore ==
    /\ retain.pc = "input"
    /\ retain' = [pc |-> "done", question |-> retain.question, answer |-> retain.answer,
                  result |-> should_store_in_vector_memory(retain.question, retain.answer)]
    /\ UNCHANGED <<storeVars, windowVars, asmVars, dbVars, ask, apiVars>>

NextRetain == ShouldStore

SpecRetain == InitRetain /\ [][NextRetain]_vars

----------------------------------------------------------------------------
(* Claims about the window selectors, checked under SpecWindow *)

RecentApplied == fn = "recent" /\ pc \in {"done", "again"}

PairsApplied == fn = "vector_qa" /\ pc \in {"done", "again"}

TurnCost(msg) == count_message_list_tokens(<<msg>>)

RECURSIVE PairsCost(_, _)
PairsCost(pairs, n) ==
    IF n = 0 THEN 0 ELSE PairsCost(pairs, n - 1) + count_tokens(RenderPair(pairs[n]))

\* r is the role/content of the last Len(r) turns of h, in h's order
IsCleanSuffix(r, h) ==
    /\ Len(r) <= Len(h)
    /\ \A i \in 1..Len(r) : r[i] = CleanMsg(h[Len(h) - Len(r) + i])

IsPrefix(r, p) ==
    /\ Len(r) <= Len(p)
    /\ \A i \in 1..Len(r) : r[i] = p[i]

\* C2: select_recent_messages_within_budget(H, B) is, in chronological order, the
\* role/content of a contiguous suffix of H: no turn is reordered and no turn is
\* kept while a more recent one is dropped.
C2_RecentIsSuffix == RecentApplied => IsCleanSuffix(selected, history)

\* two different turns kept, in order, while an older turn is dropped
C2_Witness ==
    /\ fn = "recent" /\ pc = "done"
    /\ Len(selected) = 2 /\ Len(history) = 3
    /\ selected[1] # selected[2]

\* C3: the per-turn costs of the returned turns sum to at most B; the result is
\* the longest such suffix (the next-older turn, if any, would exceed B); it is
\* empty only if H is empty or the most recent turn alone costs more than B.
C3_RecentWithinBudgetMaximal ==
    RecentApplied =>
        /\ count_message_list_tokens(selected) <= max_tokens
        /\ Len(selected) < Len(history) =>
              count_message_list_tokens(selected)
                 + TurnCost(history[Len(history) - Len(selected)]) > max_tokens
        /\ selected = <<>> =>
              \/ history = <<>>
              \/ TurnCost(history[Len(history)]) > max_tokens

\* the selected turns fill the budget exactly and an older turn is left out
C3_Witness ==
    /\ fn = "recent" /\ pc = "done"
    /\ Len(selected) >= 1 /\ Len(selected) < Len(history)
    /\ count_message_list_tokens(selected) = max_tokens

\* C4 as stated: with B at least the cost of all of H the result equals H (same
\* number of turns, last element equal to H's last element); with B below the
\* cost of the most recent turn the result is empty.
C4_EqualsHistory ==
    (fn = "recent" /\ pc = "done") =>
        /\ max_tokens >= count_message_list_tokens(history) =>
              /\ Len(selected) = Len(history)
              /\ history # <<>> => selected[Len(selected)] = history[Len(history)]
              /\ selected = history
        /\ (history # <<>> /\ max_tokens < TurnCost(history[Len(history)])) =>
              selected = <<>>

\* C4 amended: with B at least the cost of all of H the result is the role/content
\* copy of every turn of H in order (it equals H when H's turns carry no other
\* field); with B below the cost of the most recent turn the result is empty.
C4_EqualsCleanHistory ==
    RecentApplied =>
        /\ max_tokens >= count_message_list_tokens(history) =>
              selected = [i \in 1..Len(history) |-> CleanMsg(history[i])]
        /\ (history # <<>> /\ max_tokens < TurnCost(history[Len(history)])) =>
              selected = <<>>

\* a full history of stored rows (with timestamp) selected whole
C4_Witness ==
    /\ fn = "recent" /\ pc = "done"
    /\ Len(history) = 3 /\ Len(selected) = 3
    /\ "timestamp" \in DOMAIN history[1]
    /\ max_tokens >= count_message_list_tokens(history)

\* C5: select_vector_qa_within_budget(P, B) is a contiguous prefix of P in
\* unchanged order, and applied to its own result with the same B it returns that
\* result unchanged.
C5_PairsPrefixIdempotent ==
    /\ PairsApplied => IsPrefix(selected, qa_pairs)
    /\ (fn = "vector_qa" /\ pc = "again") => selected = qa_pairs

\* a non-empty proper prefix was selected and the selector was applied to it again
C5_Witness ==
    /\ fn = "vector_qa" /\ pc = "again"
    /\ Len(selected) = 2
    /\ selected[1] # selected[2]

FittingPrefixes(pairs, budget) == {n \in 0..Len(pairs) : PairsCost(pairs, n) <= budget}

LongestFittingPrefix(pairs, budget) ==
    LET fits == FittingPrefixes(pairs, budget)
    IN  CHOOSE n \in fits : \A m \in fits : m <= n

\* C6: the pair selector stops at the first pair that would overflow B and keeps
\* nothing ranked after it, even a pair that would still fit: the result is the
\* longest prefix of P whose cumulative cost is at most B, and it is P when B is
\* at least the total cost of P.
C6_PairsLongestPrefix ==
    PairsApplied =>
        /\ selected = SubSeq(qa_pairs, 1, LongestFittingPrefix(qa_pairs, max_tokens))
        /\ max_tokens >= PairsCost(qa_pairs, Len(qa_pairs)) => selected = qa_pairs

\* the second pair overflows, the third would have fitted and is dropped
C6_Witness ==
    /\ fn = "vector_qa" /\ pc = "done"
    /\ Len(qa_pairs) = 3 /\ Len(selected) = 1
    /\ PairsCost(selected, 1) + count_tokens(RenderPair(qa_pairs[3])) <= max_tokens

----------------------------------------------------------------------------
(* Claims about the semantic store, checked under Spec *)

IndexSize == IF _index = None THEN 0 ELSE Len(_index[1].xb)

\* x and y point the same way: their cosine similarity is 1
SameDirection(x, y) ==
    LET d == Dot(x.v, y.v, 1)
    IN  d > 0 /\ d * d = Dot(x.v, x.v, 1) * Dot(y.v, y.v, 1)

Entry(i) == <<_questions[i], _answers[i]>>

\* C7: after any sequence of add and search calls, failed add calls included, the
\* index holds as many vectors as there are stored questions and stored answers.
C7_IndexMatchesTexts ==
    /\ IndexSize = Len(_questions)
    /\ IndexSize = Len(_answers)

\* an add was refused by a store that holds an entry
C7_Witness ==
    /\ op.name = "add" /\ op.raised
    /\ Len(_questions) = 1 /\ IndexSize = 1
    /\ _dim = Some(1)

\* C8: search asks the index for at most n neighbours and returns at most
\* min(top_k, n) pairs, exactly that many for top_k >= 1; on an empty store it
\* returns the empty list without searching the index and without raising.
C8_SearchBounded ==
    op.name = "search" =>
        LET n == Len(_questions)
        IN  /\ op.asked # None => op.asked[1] <= n
            /\ ~op.raised => Len(op.results) <= Min(op.top_k, n)
            /\ (~op.raised /\ op.top_k >= 1) => Len(op.results) = Min(op.top_k, n)
            /\ n = 0 => ~op.raised /\ op.results = <<>> /\ op.asked = None

\* the default top_k on a store of two entries: two neighbours asked, two pairs returned
C8_Witness ==
    /\ op.name = "search" /\ ~op.raised
    /\ op.top_k = TOP_K /\ Len(_questions) = 2
    /\ op.asked = Some(2) /\ Len(op.results) = 2

QueryIsEntry(i) == _index[1].xb[i] = normalize_L2(op.embedding)

RoundTripCase ==
    /\ op.name = "search" /\ ~op.raised
    /\ Len(_questions) >= 1
    /\ op.top_k >= Len(_questions)

\* C9 as stated: with top_k >= N, a search with the embedding of any stored entry
\* returns that entry's exact (question, answer) pair first.
C9_RoundTripExact ==
    RoundTripCase =>
        \A i \in 1..Len(_questions) : QueryIsEntry(i) => op.results[1] = Entry(i)

\* C9 amended: the first result is a stored entry whose embedding points the same
\* way as the query; it is the queried entry's own pair whenever no other entry
\* with a different pair has the same or a parallel embedding.
C9_RoundTripUpToTies ==
    RoundTripCase =>
        \A i \in 1..Len(_questions) :
            QueryIsEntry(i) =>
                /\ SameDirection(_index[1].xb[op.indices[1]], _index[1].xb[i])
                /\ op.results[1] = Entry(op.indices[1])
                /\ (\A j \in 1..Len(_questions) :
                       SameDirection(_index[1].xb[j], _index[1].xb[i]) => Entry(j) = Entry(i))
                   => op.results[1] = Entry(i)

\* the second of two entries is queried by its own embedding and comes back first
C9_Witness ==
    /\ RoundTripCase
    /\ Len(_questions) = 2
    /\ QueryIsEntry(2) /\ ~SameDirection(_index[1].xb[1], _index[1].xb[2])
    /\ Entry(1) # Entry(2)
    /\ op.indices = <<2, 1>>

\* an add or a search with an embedding of another length than the store's raised
DimensionEnforced ==
    (op.name \in {"add", "search"} /\ _dim # None /\ Len(op.embedding) # _dim[1])
        => op.raised

\* the first add fixes the dimension, no later call changes it, and an add that
\* raised left the texts and the index as they were
DimensionStep ==
    /\ (op'.name = "add" /\ _dim = None /\ op' # op) => _dim' = Some(Len(op'.embedding))
    /\ _dim # None => _dim' = _dim
    /\ (op'.name = "add" /\ op'.raised) =>
          /\ _questions' = _questions
          /\ _answers' = _answers
          /\ _index' = _index

\* C10: the store's dimension is set by the first add; a later add or search with
\* an embedding of a different length raises (nothing is coerced), and a failed
\* add leaves the stored questions, answers and index unchanged.
C10_DimensionFixed == []DimensionEnforced /\ [][DimensionStep]_vars

\* a one-dimensional embedding was refused by a two-dimensional store
C10_Witness ==
    /\ op.name = "add" /\ op.raised
    /\ _dim = Some(2) /\ Len(op.embedding) = 1
    /\ Len(_questions) = 1

----------------------------------------------------------------------------
(* Claims about the prompt assembler, checked under SpecAssemble *)

Returned == call.name = "build_messages_for_model" /\ ~call.raised

\* C1: build_messages_for_model returns a list that starts with the system
\* instruction, ends with the user turn holding the question, and holds between
\* them nothing but at most one context turn followed by the selected history
\* turns: its length is at least 2 and at most 2 + (0 or 1) + the number of
\* history turns selected.
C1_AssembleShape ==
    Returned =>
        LET m      == call.messages
            n      == Len(m)
            recent == select_recent_messages_within_budget(call.history, MAX_HISTORY_TOKENS)
            extra  == n - 2 - Len(recent)
        IN  /\ n >= 2
            /\ m[1] = [role |-> "system", content |-> SYSTEM_INSTRUCTION]
            /\ m[n] = [role |-> "user", content |-> call.question]
            /\ extra \in {0, 1}
            /\ SubSeq(m, 2 + extra, n - 1) = recent
            /\ extra = 1 => m[2].role = "system" /\ m[2].content # SYSTEM_INSTRUCTION

\* a context turn is present and one of two history turns was trimmed away
C1_Witness ==
    /\ Returned
    /\ Len(call.messages) = 4
    /\ call.messages[2].role = "system"
    /\ Len(call.history) = 2

\* the second message is a context turn
HasContextTurn(m) == Len(m) >= 3 /\ m[2].role = "system"

\* C12: on an empty store build_messages_for_model makes no embed call and emits
\* no context turn; when no retrieved pair survives the budget trim it emits no
\* context turn either; with an empty store and an empty history the output is
\* exactly the system instruction followed by the user turn with the question.
C12_NoContextWithoutPairs ==
    call.name = "build_messages_for_model" =>
        /\ is_empty(Store) =>
              /\ call.embed_calls = 0
              /\ ~call.raised
              /\ ~HasContextTurn(call.messages)
        /\ (~call.raised /\ call.qa_context = <<>>) => ~HasContextTurn(call.messages)
        /\ (is_empty(Store) /\ call.history = <<>>) =>
              call.messages = <<[role |-> "system", content |-> SYSTEM_INSTRUCTION],
                                [role |-> "user", content |-> call.question]>>

\* the store holds only an exchange larger than the context budget: the question
\* was embedded, nothing survived the trim, and the history follows the system
\* instruction directly
C12_Witness ==
    /\ Returned
    /\ ~is_empty(Store) /\ call.embed_calls = 1 /\ call.qa_context = <<>>
    /\ Len(call.history) = 1 /\ Len(call.messages) = 3
    /\ call.messages[2].role # "system"

LinesOf(text) ==
    LET breaks   == {i \in 1..Len(text) : text[i] = "\n"}
        break(k) == IF k = 0 THEN 0
                    ELSE IF k > Cardinality(breaks) THEN Len(text) + 1
                    ELSE CHOOSE i \in breaks : Cardinality({j \in breaks : j < i}) = k - 1
    IN  [k \in 1..(Cardinality(breaks) + 1) |->
            SubSeq(text, break(k - 1) + 1, break(k) - 1)]

\* C29: build_messages_for_model is read-only: the call persists no turn and
\* adds nothing to the store, the messages table and the store are after the
\* call what they were before it, the history list it fetched still is a result
\* of get_messages with its timestamps, and every turn returned has exactly the
\* fields role and content.
C29_AssembleReadOnly ==
    /\ [][call' # call => /\ db_messages' = db_messages
                          /\ db_conversations' = db_conversations
                          /\ Store' = Store
                          /\ call'.name = "build_messages_for_model"]_vars
    /\ [](call.name = "build_messages_for_model" =>
             /\ call.history \in get_messages(db_messages, call.conversation_id)
             /\ \A i \in 1..Len(call.history) :
                   DOMAIN call.history[i] = {"role", "content", "timestamp"}
             /\ \A i \in 1..Len(call.messages) :
                   DOMAIN call.messages[i] = {"role", "content"})

\* two stored rows with their timestamps were selected into the prompt of a
\* call made on a store that holds entries
C29_Witness ==
    /\ Returned
    /\ Len(call.history) = 2 /\ Len(call.messages) >= 4
    /\ Len(db_messages) = Len(call.history)
    /\ ~is_empty(Store)

\* the content of the context turn lists the pairs numbered from 1: the header
\* line, then for the k-th pair a line Q{k}, a line A{k} and, between pairs, a
\* blank line
NumberedFromOne(content, pairs) ==
    LET lines == LinesOf(content)
        n     == Len(pairs)
    IN  /\ Len(lines) = 3 * n
        /\ lines[1] = ContextHeader
        /\ \A k \in 1..n :
              /\ lines[3 * k - 1] = <<"Q", ToString(k), ": ">> \o pairs[k][1]
              /\ lines[3 * k] = <<"A", ToString(k), ": ">> \o pairs[k][2]
              /\ k < n => lines[3 * k + 1] = <<>>

\* the pairs from the k-th on are entries of the store not in used, each one
\* scoring for the query q no lower than any entry that is left when it is listed
RECURSIVE RankedFrom(_, _, _, _)
RankedFrom(pairs, k, used, q) ==
    \/ k > Len(pairs)
    \/ \E i \in (1..Len(_questions)) \ used :
          /\ pairs[k] = <<_questions[i], _answers[i]>>
          /\ \A j \in (1..Len(_questions)) \ used :
                ScoreGE(_index[1].xb[i], _index[1].xb[j], q)
          /\ RankedFrom(pairs, k + 1, used \cup {i}, q)

\* the pairs are the first ones of a ranking of the store for the question
InRankOrder(pairs, question) ==
    RankedFrom(pairs, 1, {}, normalize_L2(EmbeddingOf(question)))

\* C30 as stated: the content of the context turn costs at most
\* MAX_VECTOR_QA_TOKENS tokens, and it lists at most 5 pairs numbered from 1 in
\* rank order.
C30_ContextTurnWithinBudget ==
    (Returned /\ HasContextTurn(call.messages)) =>
        /\ count_tokens(call.messages[2].content) <= MAX_VECTOR_QA_TOKENS
        /\ Len(call.qa_context) <= TOP_K
        /\ NumberedFromOne(call.messages[2].content, call.qa_context)
        /\ InRankOrder(call.qa_context, call.question)

\* C30, amended: the pairs listed in the context turn cost together, each
\* rendered as "Q: q\nA: a\n", at most MAX_VECTOR_QA_TOKENS tokens (the header
\* line and the numbering are not charged to the budget), and the turn lists at
\* least 1 and at most 5 pairs, numbered from 1 in rank order.
C30_ListedPairsWithinBudget ==
    (Returned /\ HasContextTurn(call.messages)) =>
        /\ PairsCost(call.qa_context, Len(call.qa_context)) <= MAX_VECTOR_QA_TOKENS
        /\ Len(call.qa_context) \in 1..TOP_K
        /\ NumberedFromOne(call.messages[2].content, call.qa_context)
        /\ InRankOrder(call.qa_context, call.question)

\* the store holds six short exchanges and the context turn lists five of them
C30_Witness ==
    /\ Returned /\ HasContextTurn(call.messages)
    /\ ntotal(Store) = 6
    /\ Len(call.qa_context) = TOP_K

----------------------------------------------------------------------------
(* Claims about the database, checked under SpecDB *)

\* the rows of a conversation as get_messages selects them, in insertion order
InInsertionOrder(conversation_id) ==
    LET rows == RowsOf(db_messages, conversation_id)
    IN  [i \in 1..Len(rows) |-> Selected(rows[i])]

\* C19: get_messages returns the messages of a conversation in the order in
\* which add_message was called, also when several of them carry the same
\* timestamp; for an identifier without messages it returns the empty list.
C19_InsertionOrder ==
    dbop.name = "get_messages" =>
        /\ dbop.result # <<>> => dbop.result = InInsertionOrder(dbop.conversation_id)
        /\ RowsOf(db_messages, dbop.conversation_id) = <<>> => dbop.result = <<>>

\* add_message got both its connections and its statements did not fail
Stored ==
    /\ dbop.name = "add_message"
    /\ dbop.ensure_connected /\ dbop.connected /\ ~dbop.raised

ConversationRows(conversation_id) ==
    {i \in 1..Len(db_conversations) : db_conversations[i].conversation_id = conversation_id}

\* C20: add_message on an identifier that has no conversation row creates the
\* row and stores the message; a second call for the same identifier stores its
\* message after the first under the same, single conversation row (wherever
\* the database was reached and executed the statements).
C20_LazyCreation ==
    Stored =>
        /\ Cardinality(ConversationRows(dbop.conversation_id)) = 1
        /\ LET rows == RowsOf(db_messages, dbop.conversation_id)
           IN  /\ Len(rows) = Len(dbop.rows_before) + 1
               /\ SubSeq(rows, 1, Len(dbop.rows_before)) = dbop.rows_before
               /\ CleanMsg(rows[Len(rows)]) = [role |-> dbop.role, content |-> dbop.content]

\* the assistant message of an exchange stored after its user message, the
\* conversation row having been created by the first of the two calls
C20_Witness ==
    /\ Stored /\ dbop.existed
    /\ dbop.conversation_id = "c1" /\ dbop.role = "assistant"
    /\ Len(dbop.rows_before) = 1 /\ dbop.rows_before[1].role = "user"
    /\ Len(db_conversations) = 1
    /\ Len(db_messages) = 2

\* the title the conversation row of an identifier carries
TitlesOf(conversation_id) ==
    {db_conversations[i].title : i \in ConversationRows(conversation_id)}

\* C21: adding the first user-role message of a conversation sets the title of
\* the conversation to the content of the message, cut to its first 50
\* characters followed by "..." when it is longer; adding any later message
\* leaves the title as it was.
C21_TitleFromFirstUserMessage ==
    Stored =>
        LET first == /\ dbop.role = "user"
                     /\ \A i \in 1..Len(dbop.rows_before) :
                           dbop.rows_before[i].role # "user"
        IN  IF first
            THEN TitlesOf(dbop.conversation_id) =
                    {IF Len(dbop.content) > 50
                     THEN SubSeq(dbop.content, 1, 50) \o <<"...">>
                     ELSE dbop.content}
            ELSE TitlesOf(dbop.conversation_id) = {dbop.title_before}

\* delete_conversation got its connection and its statement did not fail
Deleted ==
    /\ dbop.name = "delete_conversation"
    /\ dbop.connected /\ ~dbop.raised

----------------------------------------------------------------------------
(* Claims about ask_question, checked under SpecAnswer *)

Finished == ask.pc \in {"returned", "failed"}

Recording == ask.pc \in {"persist_question", "persist_answer", "retain"}

\* a step that writes to the history or to the store is a step of
\* update_memories_after_response, taken after call_model has returned
WritesOnlyWhenRecording ==
    (DB' # DB \/ Store' # Store) => (Recording /\ ask.generate_calls = 1)

\* a call that failed in build_messages_for_model or in call_model left the
\* history and the store as they were when it began
FailureLeavesState ==
    (ask.pc = "failed" /\ ask.failed_at \in {"assemble", "generate"}) =>
        /\ DB = ask.db0
        /\ Store = ask.store0
        /\ ask.result = None

\* the model is called on the assembled messages, the record step follows the
\* model's answer, and the text returned is that answer
ReturnsGenerated ==
    /\ ask.generate_calls = 1 => ask.messages # <<>>
    /\ (Recording \/ ask.pc = "returned") =>
          /\ ask.generate_calls = 1
          /\ ask.answer \in {Strip(content) : content \in Completions}
    /\ ask.pc = "returned" => ask.result = Some(ask.answer)

\* C14: ask_question assembles, generates, records and returns in that order: no
\* turn is persisted and no entry is added to the store before call_model has
\* returned; if assembling or generating fails, history and store are as they
\* were before the call; a call that succeeds returns the generated text.
C14_AnswerOrder ==
    /\ [](FailureLeavesState /\ ReturnsGenerated)
    /\ [][WritesOnlyWhenRecording]_vars

\* the model failed after a prompt was assembled with one embed call
C14_Witness ==
    /\ ask.pc = "failed" /\ ask.failed_at = "generate"
    /\ ask.generate_calls = 1 /\ ask.embed_assemble = 1
    /\ db_messages = <<>> /\ Len(_questions) = 1

\* the calls made on a conversation, in call order
CallsOn(conversation_id) ==
    SelectSeq(ask.log, LAMBDA e : e.conversation_id = conversation_id)

\* for each call the user turn with its question, then the assistant turn with
\* its answer
TurnsOf(calls) ==
    [i \in 1..(2 * Len(calls)) |->
        IF i % 2 = 1 THEN [role |-> "user", content |-> calls[(i + 1) \div 2].question]
        ELSE [role |-> "assistant", content |-> calls[i \div 2].answer]]

\* C15: after n ask_question calls on one conversation that each returned text
\* (and whose two turns the database stored), starting from an empty history,
\* the history read from the database is exactly the 2n turns: for each call in
\* call order the user turn followed by the assistant turn.
C15_TwoTurnsPerCall ==
    (ask.pc \in {"idle", "returned", "failed"}) =>
        \A c \in AskConversations :
            LET calls == CallsOn(c)
            IN  (\A i \in 1..Len(calls) : calls[i].returned /\ calls[i].inserted = 2) =>
                    \A h \in OrderedByTimestamp(RowsOf(db_messages, c)) :
                        [i \in 1..Len(h) |-> CleanMsg(h[i])] = TurnsOf(calls)

\* C16: when the retention step of update_memories_after_response raises after
\* both turns were persisted, the two turns are still the last two rows of the
\* conversation: nothing is rolled back.
C16_PersistedTurnsRemain ==
    (ask.pc = "failed" /\ ask.failed_at = "retain" /\ ask.inserted = 2) =>
        LET rows == RowsOf(db_messages, ask.conversation_id)
            n    == Len(rows)
        IN  /\ Len(db_messages) = Len(ask.db0.messages) + 2
            /\ n >= 2
            /\ CleanMsg(rows[n - 1]) = [role |-> "user", content |-> ask.question]
            /\ CleanMsg(rows[n]) = [role |-> "assistant", content |-> ask.answer]

\* the embed call of the retention step failed after both turns were stored
C16_Witness ==
    /\ ask.pc = "failed" /\ ask.failed_at = "retain"
    /\ ask.inserted = 2 /\ ask.embed_record = 1
    /\ Len(db_messages) = 2
    /\ Store = ask.store0

\* a turn was not persisted: add_message raised, or returned without a connection
PersistFailed ==
    \/ ask.persist_raised
    \/ (ask.retain_evaluated /\ ask.inserted < 2)

\* C17: if persisting a turn fails, the retention heuristic is still evaluated
\* and, when it approves, the exchange is still embedded and, the embedding
\* obtained, added to the store (stated for the exchanges the heuristic
\* approves).
C17_RetentionDespitePersistFailure ==
    (Finished /\ PersistFailed
              /\ should_store_in_vector_memory(ask.question, ask.answer)) =>
        /\ ask.retain_evaluated
        /\ ask.embed_record = 1
        /\ ask.pc = "returned" => Len(_questions) = Len(ask.store0.questions) + 1

\* C18 as stated: a failure of embed or generate surfaces as an error and never
\* as an answer, and within one call embed is invoked at most once while
\* assembling, at most once while recording, and generate exactly once.
C18_GenerateExactlyOnce ==
    Finished =>
        /\ ask.embed_assemble <= 1
        /\ ask.embed_record <= 1
        /\ ask.generate_calls = 1
        /\ ask.pc = "failed" => ask.result = None

\* C18 amended: a failure of embed or generate is not retried and ends the call
\* with the error and without an answer; within one call embed is invoked at
\* most once while assembling and at most once while recording, and generate at
\* most once: exactly once when the prompt was assembled, never when assembling
\* failed.
C18_NoRetry ==
    /\ ask.embed_assemble <= 1
    /\ ask.embed_record <= 1
    /\ ask.generate_calls <= 1
    /\ Finished =>
          /\ ask.generate_calls = 1 <=> ask.failed_at # "assemble"
          /\ ask.pc = "failed" =>
                /\ ask.result = None
                /\ ~ask.log[Len(ask.log)].returned
          /\ ask.failed_at = "assemble" => ask.embed_assemble = 1 /\ ask.embed_record = 0
          /\ ask.failed_at = "generate" => ask.embed_record = 0 /\ ~ask.retain_evaluated

\* the embed call of the assembler failed: the model was not called
C18_Witness ==
    /\ ask.pc = "failed" /\ ask.failed_at = "assemble"
    /\ ask.embed_assemble = 1 /\ ask.generate_calls = 0
    /\ ask.result = None

\* C24: update_memories_after_response adds exactly one entry, the question,
\* the answer and the normalised embedding of the question, at the end of the
\* store if and only if should_store_in_vector_memory(question, answer) is true;
\* when the heuristic rejects the exchange no embed call is made and the store
\* is what it was, and the turns add_message stored are in the history, the
\* question before the answer (for every call whose record step returned).
C24_RecordIffApproved ==
    ask.pc = "returned" =>
        LET S0     == ask.store0
            xb0    == IF S0.index = None THEN <<>> ELSE S0.index[1].xb
            rows   == RowsOf(db_messages, ask.conversation_id)
            before == RowsOf(ask.db0.messages, ask.conversation_id)
        IN  /\ ask.retain_evaluated
            /\ IF should_store_in_vector_memory(ask.question, ask.answer)
               THEN /\ ask.embed_record = 1
                    /\ _questions = Append(S0.questions, ask.question)
                    /\ _answers = Append(S0.answers, ask.answer)
                    /\ _index[1].xb = Append(xb0, normalize_L2(EmbeddingOf(ask.question)))
               ELSE /\ ask.embed_record = 0
                    /\ Store = S0
                    /\ Len(rows) = Len(before) + ask.inserted
                    /\ ask.inserted = 2 =>
                          /\ CleanMsg(rows[Len(rows) - 1]) =
                                [role |-> "user", content |-> ask.question]
                          /\ CleanMsg(rows[Len(rows)]) =
                                [role |-> "assistant", content |-> ask.answer]

\* a greeting was answered: it was rejected, nothing was embedded, the store
\* holds what it held, and both turns are in the history
C24_Witness ==
    /\ ask.pc = "returned"
    /\ ~should_store_in_vector_memory(ask.question, ask.answer)
    /\ ask.embed_record = 0 /\ ask.inserted = 2
    /\ Len(_questions) = 1 /\ Store = ask.store0
    /\ Len(db_messages) = 2

----------------------------------------------------------------------------
(* Claims about the endpoints, checked under SpecApi *)

\* a field of the body is missing or empty
Incomplete(body) ==
    \/ body.conversation_id \in {None, Some("")}
    \/ body.question \in {None, Some(<<>>)}

\* C23: a POST /ask whose conversation_id or question is missing or empty is
\* answered with status 400 and ask_question is not called for it.
C23_RejectedWith400 ==
    (http.pc = "responded" /\ http.endpoint = "ask" /\ Incomplete(http.body)) =>
        /\ http.status = 400
        /\ ~http.invoked

\* the exchange of a finished call was retained in the store
Retained(e) == e.returned /\ should_store_in_vector_memory(e.question, e.answer)

\* a search for the question of the exchange returns the exchange
Retrievable(e) ==
    \E r \in search(Store, EmbeddingOf(e.question), TOP_K) :
        ~r.raised /\ <<e.question, e.answer>> \in Range(r.results)

\* every entry of the store is after the step what it was before it
StoreOnlyGrows ==
    /\ IsPrefix(_questions, _questions')
    /\ IsPrefix(_answers, _answers')
    /\ _index # None => /\ _index' # None
                        /\ _index'[1].d = _index[1].d
                        /\ IsPrefix(_index[1].xb, _index'[1].xb)

\* C26: no step of the program (a request to /ask with its assemble, generate
\* and record steps, a search, the deletion of a conversation) removes or
\* changes an entry of the store: the questions, the answers and the vectors
\* only grow at the end; an exchange that was retained stays retrievable, also
\* after its conversation was deleted.
C26_StoreOnlyGrows ==
    /\ [][StoreOnlyGrows]_vars
    /\ [](\A i \in 1..Len(ask.log) : Retained(ask.log[i]) => Retrievable(ask.log[i]))

\* the conversation of a retained exchange was deleted with its two messages and
\* the store still holds the exchange after the entry it held before
C26_Witness ==
    /\ dbop.name = "delete_conversation" /\ dbop.connected /\ ~dbop.raised
    /\ Len(dbop.rows_before) = 2 /\ db_messages = <<>>
    /\ Len(ask.log) = 1 /\ Retained(ask.log[1])
    /\ dbop.conversation_id = ask.log[1].conversation_id
    /\ Len(_questions) = 2 /\ _questions[2] = ask.log[1].question

----------------------------------------------------------------------------
(* Claims about the store shared by the conversations, checked under SpecShared *)

\* the finished calls on another conversation whose exchange was retained
OtherRetained ==
    {i \in 1..Len(ask.log) :
        ask.log[i].conversation_id # ask.conversation_id /\ Retained(ask.log[i])}

\* the context turn of the prompt lists the exchange
Listed(e, messages) ==
    /\ HasContextTurn(messages)
    /\ LET lines == LinesOf(messages[2].content)
       IN  \E k \in 1..TOP_K :
              /\ 3 * k <= Len(lines)
              /\ lines[3 * k - 1] = <<"Q", ToString(k), ": ">> \o e.question
              /\ lines[3 * k] = <<"A", ToString(k), ": ">> \o e.answer

\* C25 as stated: an exchange retained by a call for one conversation is listed
\* in the prompt assembled by a later call for another conversation.
C25_RetainedIsReturned ==
    \A i \in OtherRetained :
        ask.messages # <<>> => Listed(ask.log[i], ask.messages)

\* C25, amended: the store is shared by the conversations: an exchange retained
\* by a call for one conversation is an entry of the store that a later call for
\* another conversation searches; it is listed in the prompt of that call
\* whenever the store holds at most 5 exchanges that together fit the context
\* budget, and it is not listed when it alone exceeds the budget.
C25_SharedWithinBudget ==
    \A i \in OtherRetained :
        ask.messages # <<>> =>
            LET e   == ask.log[i]
                S0  == ask.store0
                n   == Len(S0.questions)
                all == [j \in 1..n |-> <<S0.questions[j], S0.answers[j]>>]
            IN  /\ \E j \in 1..n : all[j] = <<e.question, e.answer>>
                /\ (n <= TOP_K /\ PairsCost(all, n) <= MAX_VECTOR_QA_TOKENS) =>
                      Listed(e, ask.messages)
                /\ count_tokens(RenderPair(<<e.question, e.answer>>)) > MAX_VECTOR_QA_TOKENS =>
                      ~Listed(e, ask.messages)

\* the prompt for "c2" lists the exchange retained from "c1"
C25_Witness ==
    /\ ask.conversation_id = "c2" /\ ask.messages # <<>>
    /\ OtherRetained # {}
    /\ \A i \in OtherRetained : Listed(ask.log[i], ask.messages)
    /\ RowsOf(db_messages, "c1") # <<>>

----------------------------------------------------------------------------
(* Claims about calls on the store running at the same time, checked under
   SpecRace *)

\* no add call is between its first and its last statement
NoAddRunning == \A t \in AddThreads : threads[t].pc \in {"check", "done"}

\* the question, the answer and the vector at position i are those of one add call
FromOneCall(i) ==
    \E t \in AddThreads :
        /\ _questions[i] = ExchangeOf(t).question
        /\ _answers[i] = ExchangeOf(t).answer
        /\ _index[1].xb[i] = normalize_L2(ExchangeOf(t).embedding)

\* C27: however the statements of add and search calls of requests served at
\* the same time interleave, the index, the questions and the answers hold at
\* every position the vector, the question and the answer of one add call, and a
\* search does not fail on a position it was given nor return a question with
\* the answer of another exchange.
C27_PositionsAligned ==
    /\ NoAddRunning =>
          /\ _index # None => ntotal(Store) = Len(_questions)
          /\ Len(_answers) = Len(_questions)
          /\ \A i \in 1..Len(_questions) : FromOneCall(i)
    /\ \A s \in SearchThreads :
          threads[s].pc = "done" =>
              /\ ~threads[s].raised
              /\ \A i \in 1..Len(threads[s].results) :
                    \E t \in AddThreads :
                       threads[s].results[i] =
                          <<ExchangeOf(t).question, ExchangeOf(t).answer>>

----------------------------------------------------------------------------
(* Claims about add_message calls running at the same time, checked under
   SpecWriters *)

\* both calls have ended, each got the connections it asked for, and no
\* statement failed for a reason of its own
BothEnded ==
    \A t \in WriterThreads :
        /\ threads[t].pc \in {"done", "raised"}
        /\ threads[t].ensure_connected /\ ~threads[t].fault
        /\ threads[t].pc = "done" => threads[t].connected

\* the message of the thread is a row of the messages table
StoredBy(t) ==
    \E i \in 1..Len(db_messages) :
        /\ db_messages[i].conversation_id = WriteOf(t).conversation_id
        /\ CleanMsg(db_messages[i]) =
              [role |-> WriteOf(t).role, content |-> WriteOf(t).content]

\* C28 as stated: after two add_message calls for an identifier that had no
\* row, however their statements interleaved, the identifier has exactly one
\* conversation row, neither call failed and both messages are stored.
C28_BothStored ==
    BothEnded =>
        /\ Cardinality(ConversationRows("c1")) = 1
        /\ \A t \in WriterThreads : threads[t].pc = "done" /\ StoredBy(t)

----------------------------------------------------------------------------
(* Claims about the retention heuristic, checked under SpecRetain *)

\* positions of the characters of a text that are not white space
Inked(text) == {i \in 1..Len(text) : ~IsSpace(text[i])}

\* number of whitespace-delimited words: the positions where a word starts
WordCount(text) ==
    Cardinality({i \in Inked(text) : i = 1 \/ IsSpace(text[i - 1])})

\* the marker is read, in lower case, from the first character of the text that
\* is not white space
BeginsWith(text, marker) ==
    /\ Inked(text) # {}
    /\ LET first == CHOOSE i \in Inked(text) : \A j \in Inked(text) : i <= j
       IN  \A j \in 1..Len(marker) :
               /\ first + j - 1 <= Len(text)
               /\ LowerOf(text[first + j - 1]) = marker[j]

BeginsWithMarker(text) == \E marker \in Range(small_talk_prefixes) : BeginsWith(text, marker)

\* the text is a marker and nothing else but white space around it
BareMarker(text) ==
    \E marker \in Range(small_talk_prefixes) :
        /\ BeginsWith(text, marker)
        /\ Cardinality(Inked(text)) = Cardinality(Inked(marker))
        /\ WordCount(text) = WordCount(marker)

\* C11: should_store_in_vector_memory returns true exactly when the trimmed,
\* lowercased question begins with no small-talk marker, the question has at
\* least 4 whitespace-delimited words and the answer at least 6; a question that
\* is a bare marker is rejected whatever the length of the answer.
C11_RetainIff ==
    retain.pc = "done" =>
        /\ retain.result <=>
              /\ ~BeginsWithMarker(retain.question)
              /\ WordCount(retain.question) >= 4
              /\ WordCount(retain.answer) >= 6
        /\ BareMarker(retain.question) => ~retain.result

\* a question of five words and an answer of six, rejected for the marker "hi"
\* that follows a leading blank in upper case
C11_Witness ==
    /\ retain.pc = "done" /\ ~retain.result
    /\ Len(retain.question) >= 2
    /\ retain.question[1] = " " /\ retain.question[2] = "H"
    /\ WordCount(retain.question) = 5
    /\ WordCount(retain.answer) = 6

====
